---- MODULE Spec2Model ----
(***************************************************************************)
(* DistroDrive: the distribution matcher (client/src/lib/distroMatcher.ts), *)
(* the link auditor (scripts/verify_links.ts), and the catalog server      *)
(* (server/routes.ts, server/storage.ts over shared/schema.ts) with the    *)
(* scripts that write its database, as state machines.                     *)
(***************************************************************************)
EXTENDS Integers, Sequences, FiniteSets, TLC

VARIABLES
    distributions,  \* matcher: the distribution list passed to the matcher
    inputs,         \* matcher: the MatcherInputs passed to the matcher
    returned,       \* matcher: what the last call returned
    content,        \* auditor: the isoUrl/logoUrl literals of server/storage.ts, in file order
    urls,           \* auditor: the Set of URLs to check, in insertion order
    pos,            \* auditor: index in urls of the URL being checked
    phase,          \* auditor: "start", "head", "get" or "done"
    requests,       \* auditor: every request sent, in order
    headResult,     \* auditor: how each URL's HEAD ended
    log,            \* auditor: the verdict lines printed, in order
    brokenCount,    \* auditor: the count of broken URLs
    db,             \* server: the tables of the database and their identity sequences
    exchange,       \* server: the last request handled and the response to it
    clock,          \* server: the time of the database and of the server, in days
    runs,           \* news fetcher: the state of each run of scripts/fetch-news.ts
    tabs,           \* ISO selection: the IsoSelectionProvider of each browser tab
    localStorage,   \* ISO selection: the item stored under "ventoy-selections"
    lastOp,         \* ISO selection: the last operation on a provider, and its tab
    wizard          \* matcher page: the state of the wizard and the call its render made

matcherVars == <<distributions, inputs, returned>>
linkVars == <<content, urls, pos, phase, requests, headResult, log, brokenCount>>
serverVars == <<db, exchange>>
selectionVars == <<tabs, localStorage, lastOp>>
restVars == <<clock, runs, selectionVars, wizard>>
vars == <<matcherVars, linkVars, serverVars, restVars>>

----------------------------------------------------------------------------
(* Bounds of the model.                                                    *)

\* Largest explicit count passed to getTopMatches.
MaxCount == 2

\* Longest distribution list passed to the matcher.
MaxDistros == 3

\* Distribution names the input lists are drawn from: three with an entry in
\* the tag map and one seeded distribution without.
Names == {"Linux Mint", "Zorin OS", "Lubuntu", "Whonix"}

\* latestVersion values the input lists are drawn from (seeded version
\* numbers, and null for a distribution with no release).
NULL == "<null>"
Versions == {NULL, "dx", "2024.12.01"}

\* Use cases the selections are drawn from.
UseCaseChoices == {"desktop", "gaming"}

----------------------------------------------------------------------------
(* Types of the tag data.                                                  *)

ExperienceLevel == {"beginner", "intermediate", "expert"}
UseCase == {"gaming", "server", "desktop", "privacy", "development"}
Hardware == {"low-end", "modern"}

Tags(e, u, h) == [experience |-> e, useCases |-> u, hardware |-> h]

distroTagsMap ==
       ("Ubuntu" :> Tags(<<"beginner", "intermediate">>, <<"desktop", "gaming", "server", "development">>, <<"modern">>))
    @@ ("Fedora" :> Tags(<<"intermediate", "expert">>, <<"desktop", "development", "server">>, <<"modern">>))
    @@ ("Debian" :> Tags(<<"intermediate", "expert">>, <<"server", "desktop", "development">>, <<"low-end", "modern">>))
    @@ ("Arch Linux" :> Tags(<<"expert">>, <<"desktop", "development">>, <<"modern">>))
    @@ ("Linux Mint" :> Tags(<<"beginner">>, <<"desktop">>, <<"low-end", "modern">>))
    @@ ("Pop!_OS" :> Tags(<<"beginner", "intermediate">>, <<"gaming", "desktop", "development">>, <<"modern">>))
    @@ ("openSUSE Tumbleweed" :> Tags(<<"intermediate", "expert">>, <<"desktop", "development">>, <<"modern">>))
    @@ ("openSUSE Leap" :> Tags(<<"intermediate">>, <<"server", "desktop">>, <<"modern">>))
    @@ ("Elementary OS" :> Tags(<<"beginner">>, <<"desktop">>, <<"modern">>))
    @@ ("Zorin OS" :> Tags(<<"beginner">>, <<"desktop", "gaming">>, <<"low-end", "modern">>))
    @@ ("MX Linux" :> Tags(<<"beginner", "intermediate">>, <<"desktop">>, <<"low-end">>))
    @@ ("EndeavourOS" :> Tags(<<"intermediate", "expert">>, <<"desktop", "development">>, <<"modern">>))
    @@ ("Garuda Linux" :> Tags(<<"intermediate">>, <<"gaming", "desktop">>, <<"modern">>))
    @@ ("Solus" :> Tags(<<"beginner", "intermediate">>, <<"desktop">>, <<"modern">>))
    @@ ("Kali Linux" :> Tags(<<"expert">>, <<"privacy", "development">>, <<"modern">>))
    @@ ("Kubuntu" :> Tags(<<"beginner", "intermediate">>, <<"desktop">>, <<"modern">>))
    @@ ("Xubuntu" :> Tags(<<"beginner", "intermediate">>, <<"desktop">>, <<"low-end">>))
    @@ ("Lubuntu" :> Tags(<<"beginner">>, <<"desktop">>, <<"low-end">>))
    @@ ("Ubuntu MATE" :> Tags(<<"beginner", "intermediate">>, <<"desktop">>, <<"low-end", "modern">>))
    @@ ("Ubuntu Studio" :> Tags(<<"intermediate">>, <<"desktop", "development">>, <<"modern">>))
    @@ ("CentOS Stream" :> Tags(<<"intermediate", "expert">>, <<"server">>, <<"modern">>))
    @@ ("Rocky Linux" :> Tags(<<"intermediate", "expert">>, <<"server">>, <<"modern">>))
    @@ ("AlmaLinux" :> Tags(<<"intermediate", "expert">>, <<"server">>, <<"modern">>))
    @@ ("Void Linux" :> Tags(<<"expert">>, <<"desktop", "development">>, <<"low-end", "modern">>))
    @@ ("Gentoo" :> Tags(<<"expert">>, <<"desktop", "development">>, <<"modern">>))
    @@ ("Slackware" :> Tags(<<"expert">>, <<"server", "desktop">>, <<"low-end", "modern">>))
    @@ ("NixOS" :> Tags(<<"expert">>, <<"development", "server">>, <<"modern">>))
    @@ ("Tails" :> Tags(<<"intermediate", "expert">>, <<"privacy">>, <<"low-end", "modern">>))
    @@ ("Qubes OS" :> Tags(<<"expert">>, <<"privacy">>, <<"modern">>))
    @@ ("Parrot OS" :> Tags(<<"intermediate", "expert">>, <<"privacy", "development">>, <<"modern">>))
    @@ ("Peppermint OS" :> Tags(<<"beginner">>, <<"desktop">>, <<"low-end">>))
    @@ ("antiX" :> Tags(<<"intermediate">>, <<"desktop">>, <<"low-end">>))
    @@ ("Bodhi Linux" :> Tags(<<"beginner", "intermediate">>, <<"desktop">>, <<"low-end">>))
    @@ ("Deepin" :> Tags(<<"beginner">>, <<"desktop">>, <<"modern">>))
    @@ ("KDE neon" :> Tags(<<"intermediate">>, <<"desktop", "development">>, <<"modern">>))
    @@ ("LMDE" :> Tags(<<"intermediate">>, <<"desktop">>, <<"low-end", "modern">>))
    @@ ("Manjaro" :> Tags(<<"beginner", "intermediate">>, <<"desktop", "gaming">>, <<"modern">>))
    @@ ("ArcoLinux" :> Tags(<<"intermediate", "expert">>, <<"desktop", "development">>, <<"modern">>))
    @@ ("Artix Linux" :> Tags(<<"expert">>, <<"desktop", "development">>, <<"modern">>))
    @@ ("Alpine Linux" :> Tags(<<"expert">>, <<"server">>, <<"low-end">>))
    @@ ("Clear Linux" :> Tags(<<"intermediate", "expert">>, <<"server", "development">>, <<"modern">>))
    @@ ("Mageia" :> Tags(<<"beginner", "intermediate">>, <<"desktop">>, <<"modern">>))
    @@ ("PCLinuxOS" :> Tags(<<"beginner", "intermediate">>, <<"desktop">>, <<"modern">>))
    @@ ("Puppy Linux" :> Tags(<<"intermediate">>, <<"desktop">>, <<"low-end">>))
    @@ ("Tiny Core Linux" :> Tags(<<"expert">>, <<"desktop">>, <<"low-end">>))
    @@ ("Fedora Silverblue" :> Tags(<<"intermediate", "expert">>, <<"desktop", "development">>, <<"modern">>))
    @@ ("openSUSE MicroOS" :> Tags(<<"expert">>, <<"server">>, <<"modern">>))
    @@ ("Vanilla OS" :> Tags(<<"intermediate">>, <<"desktop">>, <<"modern">>))
    @@ ("Nobara" :> Tags(<<"beginner", "intermediate">>, <<"gaming", "desktop">>, <<"modern">>))
    @@ ("Bazzite" :> Tags(<<"beginner", "intermediate">>, <<"gaming">>, <<"modern">>))

WEIGHTS == [experience |-> 3, useCase |-> 2, hardware |-> 1]

\* Array.prototype.includes
Includes(arr, x) == \E i \in 1..Len(arr) : arr[i] = x

\* distroTagsMap[distro.name] is undefined (falsy) for a name without an entry
HasTags(name) == name \in DOMAIN distroTagsMap

----------------------------------------------------------------------------
(* JavaScript numbers: an integer or NaN.  Times are counted in days since *)
(* the epoch, which keeps the sign of every difference the code takes.     *)

Num(n) == [nan |-> FALSE, v |-> n]
NaN == [nan |-> TRUE, v |-> 0]

\* x !== y on numbers: NaN differs from everything, itself included
NumNeq(x, y) == x.nan \/ y.nan \/ x.v # y.v

\* x - y
NumSub(x, y) == IF x.nan \/ y.nan THEN NaN ELSE Num(x.v - y.v)

\* new Date(s).getTime(): a version string that is no date parses to an
\* Invalid Date, whose time is NaN
DateGetTime(s) ==
    CASE s = "2024.12.01" -> Num(20058)
      [] s = "2025.12.01" -> Num(20423)
      [] OTHER -> NaN

\* truthiness of a string | null
Truthy(s) == s # NULL /\ s # ""

----------------------------------------------------------------------------
(* String.prototype.localeCompare: compare on the letters first, case and  *)
(* then length deciding only between strings equal on those.               *)

CollationOrder == " _-.!()0123456789abcdefghijklmnopqrstuvwxyz"
UpperLetters == "ABCDEFGHIJKLMNOPQRSTUVWXYZ"
LowerLetters == "abcdefghijklmnopqrstuvwxyz"

Char(s, i) == SubSeq(s, i, i)

IndexIn(str, c) ==
    LET at == {i \in 1..Len(str) : Char(str, i) = c}
    IN  IF at = {} THEN 0 ELSE CHOOSE i \in at : TRUE

IsUpper(c) == IndexIn(UpperLetters, c) > 0

ToLower(c) == IF IsUpper(c) THEN Char(LowerLetters, IndexIn(UpperLetters, c)) ELSE c

PrimaryRank(c) == IndexIn(CollationOrder, ToLower(c))

Min2(a, b) == IF a < b THEN a ELSE b
Max2(a, b) == IF a > b THEN a ELSE b

LocaleCompare(a, b) ==
    LET n == Min2(Len(a), Len(b))
        first(S) == CHOOSE i \in S : \A j \in S : i <= j
        caseDiff == {i \in 1..n : Char(a, i) # Char(b, i)}
        primDiff == {i \in caseDiff : PrimaryRank(Char(a, i)) # PrimaryRank(Char(b, i))}
        byRank(i) == IF PrimaryRank(Char(a, i)) < PrimaryRank(Char(b, i)) THEN -1 ELSE 1
        byLength == IF Len(a) < Len(b) THEN -1 ELSE 1
    IN  IF caseDiff = {}
        THEN IF Len(a) = Len(b) THEN 0 ELSE byLength
        ELSE IF first(caseDiff) \in primDiff THEN byRank(first(caseDiff))
        ELSE IF primDiff # {} THEN byRank(first(primDiff))
        ELSE IF Len(a) # Len(b) THEN byLength
        ELSE IF IsUpper(Char(b, first(caseDiff))) THEN -1 ELSE 1

----------------------------------------------------------------------------
(* scoreDistributions: the scoring loop.                                   *)

Hit(acc, weight, label) ==
    [score |-> acc.score + weight, matchedTags |-> Append(acc.matchedTags, label)]

\* UseCaseLoop leaving the loop at the first matching use case
RECURSIVE UseCaseLoopBreak(_, _, _, _)
UseCaseLoopBreak(useCases, tags, i, acc) ==
    IF i > Len(useCases) THEN acc
    ELSE IF Includes(tags.useCases, useCases[i])
         THEN Hit(acc, WEIGHTS.useCase, useCases[i])
         ELSE UseCaseLoopBreak(useCases, tags, i + 1, acc)

\* for (const useCase of inputs.useCases) ...
RECURSIVE UseCaseLoop(_, _, _, _)
UseCaseLoop(useCases, tags, i, acc) ==
    IF i > Len(useCases) THEN acc
    ELSE IF Includes(tags.useCases, useCases[i])
         THEN UseCaseLoop(useCases, tags, i + 1, Hit(acc, WEIGHTS.useCase, useCases[i]))
         ELSE UseCaseLoop(useCases, tags, i + 1, acc)

\* ScoreTags giving a hardware match the weight of a use case
ScoreTagsHardwareWeight(ins, tags) ==
    LET a0 == [score |-> 0, matchedTags |-> <<>>]
        a1 == IF Includes(tags.experience, ins.experience)
              THEN Hit(a0, WEIGHTS.experience, ins.experience \o " friendly")
              ELSE a0
        a2 == UseCaseLoop(ins.useCases, tags, 1, a1)
        a3 == IF Includes(tags.hardware, ins.hardware)
              THEN Hit(a2, WEIGHTS.useCase, ins.hardware \o " hardware")
              ELSE a2
    IN  a3

\* ScoreTags testing the hardware before the use cases
ScoreTagsHardwareFirst(ins, tags) ==
    LET a0 == [score |-> 0, matchedTags |-> <<>>]
        a1 == IF Includes(tags.experience, ins.experience)
              THEN Hit(a0, WEIGHTS.experience, ins.experience \o " friendly")
              ELSE a0
        a2 == IF Includes(tags.hardware, ins.hardware)
              THEN Hit(a1, WEIGHTS.hardware, ins.hardware \o " hardware")
              ELSE a1
        a3 == UseCaseLoop(ins.useCases, tags, 1, a2)
    IN  a3

\* score and matchedTags of one distribution with known tags
ScoreTags(ins, tags) ==
    LET a0 == [score |-> 0, matchedTags |-> <<>>]
        a1 == IF Includes(tags.experience, ins.experience)
              THEN Hit(a0, WEIGHTS.experience, ins.experience \o " friendly")
              ELSE a0
        a2 == UseCaseLoop(ins.useCases, tags, 1, a1)
        a3 == IF Includes(tags.hardware, ins.hardware)
              THEN Hit(a2, WEIGHTS.hardware, ins.hardware \o " hardware")
              ELSE a2
    IN  a3

\* ScoreLoop keeping the distributions that score 0 (score >= 0)
RECURSIVE ScoreLoopKeepZero(_, _, _, _)
ScoreLoopKeepZero(ins, ds, i, scored) ==
    IF i > Len(ds) THEN scored
    ELSE IF ~HasTags(ds[i].name) THEN ScoreLoopKeepZero(ins, ds, i + 1, scored)
    ELSE LET r == ScoreTags(ins, distroTagsMap[ds[i].name])
         IN  ScoreLoopKeepZero(ins, ds, i + 1,
                 Append(scored, [distribution |-> ds[i], score |-> r.score,
                                 matchedTags |-> r.matchedTags]))

\* for (const distro of distributions) ...
RECURSIVE ScoreLoop(_, _, _, _)
ScoreLoop(ins, ds, i, scored) ==
    IF i > Len(ds) THEN scored
    ELSE IF ~HasTags(ds[i].name) THEN ScoreLoop(ins, ds, i + 1, scored)
    ELSE LET r == ScoreTags(ins, distroTagsMap[ds[i].name])
         IN  IF r.score > 0
             THEN ScoreLoop(ins, ds, i + 1,
                      Append(scored, [distribution |-> ds[i], score |-> r.score,
                                      matchedTags |-> r.matchedTags]))
             ELSE ScoreLoop(ins, ds, i + 1, scored)

----------------------------------------------------------------------------
(* scoreDistributions: the sort.                                           *)

\* a.distribution.name.localeCompare(b.distribution.name), tabulated over the
\* names of the model
NameCompare == [a \in Names, b \in Names |-> LocaleCompare(a, b)]

\* the comparator handed to scored.sort
SortCompare(a, b) ==
    IF b.score # a.score THEN Num(b.score - a.score)
    ELSE LET dateA == IF Truthy(a.distribution.latestVersion)
                      THEN DateGetTime(a.distribution.latestVersion) ELSE Num(0)
             dateB == IF Truthy(b.distribution.latestVersion)
                      THEN DateGetTime(b.distribution.latestVersion) ELSE Num(0)
         IN  IF NumNeq(dateB, dateA) THEN NumSub(dateB, dateA)
             ELSE Num(NameCompare[a.distribution.name, b.distribution.name])

\* Array.prototype.sort reads a NaN from the comparator as +0; x goes before y
\* only on a negative answer
Before(x, y) == LET c == SortCompare(x, y) IN ~c.nan /\ c.v < 0

\* one step of the stable insertion: x moves left past the elements it goes before
InsertSorted(prefix, x) ==
    LET stops == {m \in 1..Len(prefix) : ~Before(x, prefix[m])}
        j == IF stops = {} THEN 0 ELSE CHOOSE m \in stops : \A k \in stops : k <= m
    IN  SubSeq(prefix, 1, j) \o <<x>> \o SubSeq(prefix, j + 1, Len(prefix))

RECURSIVE SortLoop(_, _, _)
SortLoop(arr, i, acc) ==
    IF i > Len(arr) THEN acc ELSE SortLoop(arr, i + 1, InsertSorted(acc, arr[i]))

\* scored.sort((a, b) => ...)
ArraySort(arr) == SortLoop(arr, 1, <<>>)

\* Array.prototype.slice(start, end)
ArraySlice(arr, start, end) ==
    LET len == Len(arr)
        k == IF start < 0 THEN Max2(len + start, 0) ELSE Min2(start, len)
        final == IF end < 0 THEN Max2(len + end, 0) ELSE Min2(end, len)
    IN  [i \in 1..Max2(final - k, 0) |-> arr[k + i]]

----------------------------------------------------------------------------
(* The two exported functions.  A call is described by the value it        *)
(* returns and by the distribution list it leaves behind.                  *)

\* scoreDistributions filtering and sorting the list it was given, in place
scoreDistributionsCallInPlace(ins, ds) ==
    LET v == ArraySort(ScoreLoop(ins, ds, 1, <<>>))
    IN  [value |-> v, distributions |-> [i \in 1..Len(v) |-> v[i].distribution]]

scoreDistributionsCall(ins, ds) ==
    [value |-> ArraySort(ScoreLoop(ins, ds, 1, <<>>)), distributions |-> ds]

scoreDistributions(ins, ds) == scoreDistributionsCall(ins, ds).value

\* getTopMatches slicing one entry too many: slice(0, count + 1)
getTopMatchesCallOneMore(ins, ds, count) ==
    LET r == scoreDistributionsCall(ins, ds)
    IN  [value |-> ArraySlice(r.value, 0, count + 1), distributions |-> r.distributions]

getTopMatchesCall(ins, ds, count) ==
    LET r == scoreDistributionsCall(ins, ds)
    IN  [value |-> ArraySlice(r.value, 0, count), distributions |-> r.distributions]

\* count: number = 3
DefaultCount == 3

----------------------------------------------------------------------------
(* The matcher as a state machine: a caller holding a distribution list    *)
(* and a selection calls the two functions in any order.                   *)

\* the distributions of the lists; the one without tags has no release
DistroRecords ==
    {d \in [name : Names, latestVersion : Versions] :
        HasTags(d.name) \/ d.latestVersion = NULL}

\* lists of distributions with distinct names, in any order
DistroLists ==
    {ds \in UNION {[1..n -> DistroRecords] : n \in 0..Min2(MaxDistros, Cardinality(Names))} :
        \A i, j \in 1..Len(ds) : i # j => ds[i].name # ds[j].name}

\* non-empty selections without repetition, in any order
UseCaseLists ==
    {us \in UNION {[1..n -> UseCaseChoices] : n \in 1..Cardinality(UseCaseChoices)} :
        \A i, j \in 1..Len(us) : i # j => us[i] # us[j]}

MatcherInputs == [experience : ExperienceLevel, useCases : UseCaseLists, hardware : Hardware]

NoCall == [fn |-> "none", count |-> 0, omitted |-> FALSE, value |-> <<>>]

\* the tables as the migration creates them: no rows, no identity value used
EmptyDb ==
    [distributions |-> {}, releases |-> {}, downloads |-> {},
     downloadClicks |-> {}, news |-> {},
     serial |-> [distributions |-> 0, releases |-> 0, downloads |-> 0,
                 downloadClicks |-> 0, news |-> 0]]

\* an absent property of a JSON object, an absent request body
Absent == "<absent>"

\* no request handled; up tells whether the server process is serving
NoExchange ==
    [route |-> "none", param |-> "", body |-> Absent, fails |-> FALSE, sent |-> <<>>,
     calls |-> 0, threw |-> FALSE, up |-> FALSE]

\* the server not started and no script run
\* the runs of the news fetcher that may overlap
Runs == {1, 2}

\* a run of the news fetcher that has not been started
IdleRun == [pc |-> "idle", feed |-> 0, items |-> 0, link |-> "", added |-> 0, skipped |-> 0,
            errors |-> 0, fetched |-> <<>>, summary |-> <<>>, pool |-> "none"]

\* the browser tabs that show the application
Tabs == {1, 2}

\* a tab in which the application is not loaded
ClosedTab == [mounted |-> FALSE, selectedDownloads |-> <<>>, restored |-> FALSE]

\* localStorage.getItem gives null: nothing is stored under the key
NoItem == [kind |-> "null", items |-> <<>>]

SelectionIdle ==
    /\ tabs = [p \in Tabs |-> ClosedTab]
    /\ localStorage = NoItem
    /\ lastOp = [op |-> "none", tab |-> 0]

\* the matcher page as it is first rendered: step 1, nothing selected
FirstRender == [step |-> 1, experience |-> NULL, useCases |-> <<>>, hardware |-> NULL,
                invoked |-> <<>>]

RestIdle ==
    /\ clock = 0
    /\ runs = [r \in Runs |-> IdleRun]
    /\ SelectionIdle
    /\ wizard = FirstRender

ServerIdle ==
    /\ db = EmptyDb
    /\ exchange = NoExchange

\* the auditor not run
LinksIdle ==
    /\ content = <<>>
    /\ urls = <<>>
    /\ pos = 0
    /\ phase = "start"
    /\ requests = <<>>
    /\ headResult = <<>>
    /\ log = <<>>
    /\ brokenCount = 0

InitMatcher ==
    /\ distributions \in DistroLists
    /\ inputs \in MatcherInputs
    /\ returned = NoCall
    /\ LinksIdle
    /\ ServerIdle
    /\ RestIdle

CallScoreDistributions ==
    LET r == scoreDistributionsCall(inputs, distributions)
    IN  /\ returned' = [fn |-> "scoreDistributions", count |-> 0, omitted |-> FALSE,
                        value |-> r.value]
        /\ distributions' = r.distributions
        /\ UNCHANGED <<inputs, linkVars, serverVars, restVars>>

CallGetTopMatches ==
    \E count \in 0..MaxCount :
        LET r == getTopMatchesCall(inputs, distributions, count)
        IN  /\ returned' = [fn |-> "getTopMatches", count |-> count, omitted |-> FALSE,
                            value |-> r.value]
            /\ distributions' = r.distributions
            /\ UNCHANGED <<inputs, linkVars, serverVars, restVars>>

CallGetTopMatchesDefault ==
    LET r == getTopMatchesCall(inputs, distributions, DefaultCount)
    IN  /\ returned' = [fn |-> "getTopMatches", count |-> DefaultCount, omitted |-> TRUE,
                        value |-> r.value]
        /\ distributions' = r.distributions
        /\ UNCHANGED <<inputs, linkVars, serverVars, restVars>>

NextMatcher ==
    \/ CallScoreDistributions
    \/ CallGetTopMatches
    \/ CallGetTopMatchesDefault

SpecMatcher == InitMatcher /\ [][NextMatcher]_vars

----------------------------------------------------------------------------
(* Properties of the matcher.                                              *)

Range(seq) == {seq[i] : i \in 1..Len(seq)}

Called == returned.fn # "none"
Ranked == returned.fn = "scoreDistributions"

\* the score the specification gives a distribution with known tags
ExpectedScore(ins, name) ==
    LET tags == distroTagsMap[name]
    IN  (IF ins.experience \in Range(tags.experience) THEN 3 ELSE 0)
        + 2 * Cardinality({i \in 1..Len(ins.useCases) :
                              ins.useCases[i] \in Range(tags.useCases)})
        + (IF ins.hardware \in Range(tags.hardware) THEN 1 ELSE 0)

\* the score a result gives the distribution of that name, 0 when it is absent
ScoreIn(result, name) ==
    IF \E k \in 1..Len(result) : result[k].distribution.name = name
    THEN LET k == CHOOSE k \in 1..Len(result) : result[k].distribution.name = name
         IN  result[k].score
    ELSE 0

\* C1: every distribution of the input list that has an entry in the tag map
\* is scored 3 for an experience match, plus 2 for each selected use case
\* among its use-case tags, plus 1 for a hardware match; the ranked list
\* carries that score for it.
C1_ScoreIsWeightedSum ==
    Ranked =>
        /\ \A i \in 1..Len(distributions) :
              HasTags(distributions[i].name) =>
                  ScoreIn(returned.value, distributions[i].name)
                      = ExpectedScore(inputs, distributions[i].name)
        /\ \A k \in 1..Len(returned.value) :
              /\ HasTags(returned.value[k].distribution.name)
              /\ returned.value[k].score
                     = ExpectedScore(inputs, returned.value[k].distribution.name)

\* reached: a ranked list with an entry matched on experience, two use cases
\* and hardware
C1_Witness ==
    /\ Ranked
    /\ \E k \in 1..Len(returned.value) :
          /\ returned.value[k].score = 8
          /\ Len(returned.value[k].matchedTags) = 4

\* the secondary date of an entry, as the comparator derives it
DateOf(e) ==
    IF Truthy(e.distribution.latestVersion)
    THEN DateGetTime(e.distribution.latestVersion) ELSE Num(0)

EarlierDate(x, y) == ~DateOf(x).nan /\ ~DateOf(y).nan /\ DateOf(x).v < DateOf(y).v

\* the two entries carry the same secondary date: the same time, or the same
\* value of the field it is read from
EqualDate(x, y) ==
    \/ x.distribution.latestVersion = y.distribution.latestVersion
    \/ ~DateOf(x).nan /\ ~DateOf(y).nan /\ DateOf(x).v = DateOf(y).v

\* C2: the returned list is ordered by score descending and, among entries of
\* equal score, by the secondary date descending: no entry is preceded by one
\* with a lower score, nor by one with the same score and an earlier date.
C2_SortedByScoreThenDate ==
    Called =>
        \A i, j \in 1..Len(returned.value) :
            i < j =>
                /\ returned.value[i].score >= returned.value[j].score
                /\ ~(/\ returned.value[i].score = returned.value[j].score
                     /\ EarlierDate(returned.value[i], returned.value[j]))

\* C3: two entries of equal score and equal secondary date appear in ascending
\* alphabetical order of name, whatever their order in the input list.
C3_TiesOrderedByName ==
    Called =>
        \A i, j \in 1..Len(returned.value) :
            (/\ i < j
             /\ returned.value[i].score = returned.value[j].score
             /\ EqualDate(returned.value[i], returned.value[j]))
                => LocaleCompare(returned.value[i].distribution.name,
                                 returned.value[j].distribution.name) < 0

\* no tag of any distribution of the list is met by the selection
NoIntersection(ins, ds) ==
    \A i \in 1..Len(ds) :
        HasTags(ds[i].name) =>
            LET tags == distroTagsMap[ds[i].name]
            IN  /\ ins.experience \notin Range(tags.experience)
                /\ Range(ins.useCases) \cap Range(tags.useCases) = {}
                /\ ins.hardware \notin Range(tags.hardware)

\* C4: every entry of a result scores at least 1 and has a tag entry, and when
\* no distribution's tags meet the selection the result is the empty list.
C4_NoZeroScores ==
    Called =>
        /\ \A k \in 1..Len(returned.value) :
              /\ returned.value[k].score >= 1
              /\ HasTags(returned.value[k].distribution.name)
        /\ NoIntersection(inputs, distributions) => returned.value = <<>>

\* reached: a list holding distributions with known tags, none of them met by
\* the selection, ranked to the empty list
C4_Witness ==
    /\ Ranked
    /\ \E i \in 1..Len(distributions) : HasTags(distributions[i].name)
    /\ \E i \in 1..Len(distributions) : ~HasTags(distributions[i].name)
    /\ NoIntersection(inputs, distributions)
    /\ returned.value = <<>>

\* the selection with one more use case
WithUseCase(ins, uc) == [ins EXCEPT !.useCases = Append(@, uc)]

\* C5: for a distribution with known tags, selecting one more use case that was
\* not yet selected and is among its use-case tags raises its score by exactly 2.
C5_UseCaseAddsTwo ==
    Ranked =>
        \A i \in 1..Len(distributions) : \A uc \in UseCase :
            (/\ HasTags(distributions[i].name)
             /\ uc \notin Range(inputs.useCases)
             /\ uc \in Range(distroTagsMap[distributions[i].name].useCases))
                => ScoreIn(scoreDistributions(WithUseCase(inputs, uc), distributions),
                           distributions[i].name)
                       = ScoreIn(returned.value, distributions[i].name) + 2

\* reached: a ranked distribution already matched on one use case, with a
\* further use case of its tags not yet selected
C5_Witness ==
    /\ Ranked
    /\ \E i \in 1..Len(distributions) : \E uc \in UseCase :
          /\ HasTags(distributions[i].name)
          /\ uc \notin Range(inputs.useCases)
          /\ uc \in Range(distroTagsMap[distributions[i].name].useCases)
          /\ Range(inputs.useCases) \cap
                 Range(distroTagsMap[distributions[i].name].useCases) # {}

\* C6: getTopMatches(inputs, distributions, N) returns the first min(N, length)
\* entries of scoreDistributions(inputs, distributions) in the same order, and
\* N is 3 when the caller gives none.
C6_TopIsPrefix ==
    returned.fn = "getTopMatches" =>
        LET full == scoreDistributions(inputs, distributions)
        IN  /\ returned.value = SubSeq(full, 1, Min2(returned.count, Len(full)))
            /\ returned.omitted => returned.count = 3

\* reached: a truncation that drops entries and keeps some
C6_Witness ==
    /\ returned.fn = "getTopMatches"
    /\ returned.count >= 1
    /\ Len(returned.value) = returned.count
    /\ Len(scoreDistributions(inputs, distributions)) > returned.count

ExampleInputs ==
    [experience |-> "beginner", useCases |-> <<"desktop">>, hardware |-> "low-end"]

ExampleTags == Tags(<<"beginner">>, <<"desktop">>, <<"low-end", "modern">>)

\* the labels in the order experience, matched use cases as selected, hardware
ExpectedLabels(ins, name) ==
    LET tags == distroTagsMap[name]
        InTags(uc) == uc \in Range(tags.useCases)
    IN  (IF ins.experience \in Range(tags.experience)
         THEN <<ins.experience \o " friendly">> ELSE <<>>)
        \o SelectSeq(ins.useCases, InTags)
        \o (IF ins.hardware \in Range(tags.hardware)
            THEN <<ins.hardware \o " hardware">> ELSE <<>>)

\* C7: for beginner, [desktop], low-end, a distribution tagged experience
\* [beginner], use cases [desktop], hardware [low-end, modern] is ranked with
\* score 6 and matchedTags "beginner friendly", "desktop", "low-end hardware";
\* every entry's labels come in the order experience label, matched use cases
\* in selection order, hardware label.
C7_ExampleScoresSix ==
    Ranked =>
        /\ \A k \in 1..Len(returned.value) :
              returned.value[k].matchedTags
                  = ExpectedLabels(inputs, returned.value[k].distribution.name)
        /\ inputs = ExampleInputs =>
              \A i \in 1..Len(distributions) :
                  (/\ HasTags(distributions[i].name)
                   /\ distroTagsMap[distributions[i].name] = ExampleTags)
                      => \E k \in 1..Len(returned.value) :
                            /\ returned.value[k].distribution = distributions[i]
                            /\ returned.value[k].score = 6
                            /\ returned.value[k].matchedTags
                                   = <<"beginner friendly", "desktop", "low-end hardware">>

\* reached: the example selection ranked over a list holding such a distribution
C7_Witness ==
    /\ Ranked
    /\ inputs = ExampleInputs
    /\ \E i \in 1..Len(distributions) :
          /\ HasTags(distributions[i].name)
          /\ distroTagsMap[distributions[i].name] = ExampleTags
    /\ \E k \in 1..Len(returned.value) : returned.value[k].score = 6

----------------------------------------------------------------------------
(* The link auditor, scripts/verify_links.ts.                              *)

\* Longest list of isoUrl/logoUrl literals in the file read.
MaxEntries == 3

\* URLs the literals are drawn from.
UrlChoices ==
    {"https://a.org/a.iso", "https://b.org/b.png",
     "https://placehold.co/64", "https://c.org/TODO.iso"}

\* setTimeout(() => controller.abort(), 8000)
TimeoutMs == 8000

\* String.prototype.includes
StrIncludes(s, sub) ==
    \E i \in 1..(Len(s) - Len(sub) + 1) : SubSeq(s, i, i + Len(sub) - 1) = sub

\* an array push in place of Set.prototype.add: repeated literals are kept
SetAddNoDedup(set, u) == Append(set, u)

\* Set.prototype.add on a Set kept in insertion order
SetAdd(set, u) == IF u \in Range(set) THEN set ELSE Append(set, u)

\* while ((match = isoRegex.exec(content)) !== null) ...
RECURSIVE ExtractIsos(_, _, _)
ExtractIsos(c, i, set) ==
    IF i > Len(c) THEN set
    ELSE IF c[i].field # "isoUrl" THEN ExtractIsos(c, i + 1, set)
    ELSE LET url == c[i].url
         IN  IF /\ url # ""
                /\ ~StrIncludes(url, "placehold")
                /\ ~StrIncludes(url, "example")
                /\ ~StrIncludes(url, "TODO")
             THEN ExtractIsos(c, i + 1, SetAdd(set, url))
             ELSE ExtractIsos(c, i + 1, set)

\* while ((match = logoRegex.exec(content)) !== null) ...
RECURSIVE ExtractLogos(_, _, _)
ExtractLogos(c, i, set) ==
    IF i > Len(c) THEN set
    ELSE IF c[i].field # "logoUrl" THEN ExtractLogos(c, i + 1, set)
    ELSE LET url == c[i].url
         IN  IF /\ url # ""
                /\ ~StrIncludes(url, "placehold")
                /\ ~StrIncludes(url, "example")
             THEN ExtractLogos(c, i + 1, SetAdd(set, url))
             ELSE ExtractLogos(c, i + 1, set)

ExtractUrls(c) == ExtractLogos(c, 1, ExtractIsos(c, 1, <<>>))

NoRange == "<none>"

\* fetch(url, {method: 'HEAD', signal, headers: {'User-Agent'}})
HeadRequest(u) == [method |-> "HEAD", url |-> u, range |-> NoRange, timeout |-> TimeoutMs]

\* fetch(url, {method: 'GET', headers: {'User-Agent', Range: 'bytes=0-10'}, signal})
GetRequest(u) == [method |-> "GET", url |-> u, range |-> "bytes=0-10", timeout |-> TimeoutMs]

\* the URL of the current iteration
Url == urls[pos]

\* a verdict line is printed and the loop goes on: the HEAD of the next URL is
\* sent, or the run ends with its summary
Verdict(tag, broken) ==
    /\ log' = Append(log, [tag |-> tag, url |-> Url])
    /\ brokenCount' = brokenCount + broken
    /\ IF pos < Len(urls)
       THEN /\ pos' = pos + 1
            /\ phase' = "head"
            /\ requests' = Append(requests, HeadRequest(urls[pos + 1]))
       ELSE /\ pos' = pos
            /\ phase' = "done"
            /\ requests' = requests
    /\ UNCHANGED <<content, urls, matcherVars, serverVars, restVars>>

\* Extract with the requests of all URLs started together (Promise.all)
ExtractFanOut ==
    /\ phase = "start"
    /\ urls' = ExtractUrls(content)
    /\ headResult' = [u \in Range(urls') |-> "pending"]
    /\ IF urls' # <<>>
       THEN /\ pos' = 1
            /\ phase' = "head"
            /\ requests' = [k \in 1..Len(urls') |-> HeadRequest(urls'[k])]
       ELSE /\ pos' = 0
            /\ phase' = "done"
            /\ requests' = <<>>
    /\ UNCHANGED <<content, log, brokenCount, matcherVars, serverVars, restVars>>

\* the file is read, the URLs are collected and the first HEAD is sent
Extract ==
    /\ phase = "start"
    /\ urls' = ExtractUrls(content)
    /\ headResult' = [u \in Range(urls') |-> "pending"]
    /\ IF urls' # <<>>
       THEN /\ pos' = 1
            /\ phase' = "head"
            /\ requests' = <<HeadRequest(urls'[1])>>
       ELSE /\ pos' = 0
            /\ phase' = "done"
            /\ requests' = <<>>
    /\ UNCHANGED <<content, log, brokenCount, matcherVars, serverVars, restVars>>

\* the HEAD answers with res.ok
HeadOk ==
    /\ phase = "head"
    /\ headResult' = [headResult EXCEPT ![Url] = "ok"]
    /\ Verdict("OK", 0)

\* HeadNotOk giving up without the GET
HeadNotOkNoRetry ==
    /\ phase = "head"
    /\ headResult' = [headResult EXCEPT ![Url] = "status"]
    /\ Verdict("FAIL", 1)

\* the HEAD answers with a status that is not ok: the GET is sent
HeadNotOk ==
    /\ phase = "head"
    /\ headResult' = [headResult EXCEPT ![Url] = "status"]
    /\ requests' = Append(requests, GetRequest(Url))
    /\ phase' = "get"
    /\ UNCHANGED <<content, urls, pos, log, brokenCount, matcherVars, serverVars, restVars>>

\* the HEAD's fetch rejects, by a network error or by the abort of the timeout:
\* the outer catch
HeadThrows ==
    /\ phase = "head"
    /\ \E cause \in {"error", "timeout"} :
          headResult' = [headResult EXCEPT ![Url] = cause]
    /\ Verdict("FAIL-NET", 1)

\* the GET answers with res2.ok or 206
GetOk ==
    /\ phase = "get"
    /\ Verdict("OK-GET", 0)
    /\ UNCHANGED headResult

\* GetNotOk sending the GET again
GetNotOkRetry ==
    /\ phase = "get"
    /\ Len(requests) < 8
    /\ requests' = Append(requests, GetRequest(Url))
    /\ UNCHANGED <<content, urls, pos, phase, headResult, log, brokenCount, matcherVars, serverVars, restVars>>

\* the GET answers with any other status
GetNotOk ==
    /\ phase = "get"
    /\ Verdict("FAIL", 1)
    /\ UNCHANGED headResult

\* the GET's fetch rejects, by a network error or by the abort of the timeout:
\* the inner catch
GetThrows ==
    /\ phase = "get"
    /\ Verdict("FAIL-ERR", 1)
    /\ UNCHANGED headResult

ContentEntries == [field : {"isoUrl", "logoUrl"}, url : UrlChoices]

InitLinks ==
    /\ content \in UNION {[1..n -> ContentEntries] : n \in 0..MaxEntries}
    /\ urls = <<>>
    /\ pos = 0
    /\ phase = "start"
    /\ requests = <<>>
    /\ headResult = <<>>
    /\ log = <<>>
    /\ brokenCount = 0
    /\ distributions = <<>>
    /\ inputs = [experience |-> "beginner", useCases |-> <<"desktop">>, hardware |-> "modern"]
    /\ returned = NoCall
    /\ ServerIdle
    /\ RestIdle

NextLinks ==
    \/ Extract
    \/ HeadOk
    \/ HeadNotOk
    \/ HeadThrows
    \/ GetOk
    \/ GetNotOk
    \/ GetThrows

SpecLinks == InitLinks /\ [][NextLinks]_vars

----------------------------------------------------------------------------
(* Properties of the link auditor.                                         *)

Count(u, method) ==
    Cardinality({k \in 1..Len(requests) :
                    requests[k].url = u /\ requests[k].method = method})

Tagged(u, tags) == \E k \in 1..Len(log) : log[k].url = u /\ log[k].tag \in tags

Unreachable(u) == Tagged(u, {"FAIL", "FAIL-ERR", "FAIL-NET"})

\* C9 as stated: whenever the HEAD of a URL fails, by a status that is not a
\* success, by a network error or by the timeout, a ranged GET for that URL is
\* sent before the URL is classified unreachable.
C9_RetryOnAnyHeadFailure ==
    \A u \in Range(urls) :
        (headResult[u] \in {"status", "error", "timeout"} /\ Unreachable(u))
            => Count(u, "GET") = 1

\* C9 amended: a HEAD answered with a status that is not a success is followed
\* by one ranged GET for that URL, sent before any verdict on it; a HEAD that
\* fails by a network error or by the timeout is classified unreachable
\* (FAIL-NET) with no GET sent.
C9_RetryOnHeadStatus ==
    \A u \in Range(urls) :
        /\ headResult[u] = "status" =>
              /\ Count(u, "GET") = 1
              /\ \A k \in 1..Len(requests) :
                    (requests[k].url = u /\ requests[k].method = "GET")
                        => requests[k].range = "bytes=0-10"
        /\ Tagged(u, {"FAIL", "FAIL-ERR", "OK-GET"}) =>
              headResult[u] = "status" /\ Count(u, "GET") = 1
        /\ (headResult[u] \in {"error", "timeout"}) =>
              Count(u, "GET") = 0 /\ Tagged(u, {"FAIL-NET"})

\* reached: a finished run with one URL failed after its fallback GET and
\* another failed on the HEAD's timeout alone
C9_Witness ==
    /\ phase = "done"
    /\ \E u, w \in Range(urls) :
          /\ headResult[u] = "status" /\ Tagged(u, {"FAIL"}) /\ Count(u, "GET") = 1
          /\ headResult[w] = "timeout" /\ Tagged(w, {"FAIL-NET"}) /\ Count(w, "GET") = 0

\* C10: for each URL at most two requests are sent, one HEAD and at most one
\* fallback GET, the GET after the HEAD.
C10_AtMostTwoRequests ==
    /\ \A u \in UrlChoices :
          /\ Count(u, "HEAD") <= 1
          /\ Count(u, "GET") <= 1
          /\ Count(u, "GET") <= Count(u, "HEAD")
    /\ \A k \in 1..Len(requests) :
          /\ requests[k].method \in {"HEAD", "GET"}
          /\ requests[k].method = "GET" =>
                k > 1 /\ requests[k - 1] = HeadRequest(requests[k].url)

\* reached: a finished run in which one URL took two requests and another one
C10_Witness ==
    /\ phase = "done"
    /\ \E u, w \in Range(urls) :
          /\ Count(u, "HEAD") = 1 /\ Count(u, "GET") = 1
          /\ Count(w, "HEAD") = 1 /\ Count(w, "GET") = 0

\* the literal is one the extraction loops keep: not empty, without
\* "placehold" or "example" and, for an isoUrl, without "TODO"
Audited(e) ==
    /\ e.url # ""
    /\ ~StrIncludes(e.url, "placehold")
    /\ ~StrIncludes(e.url, "example")
    /\ e.field = "isoUrl" => ~StrIncludes(e.url, "TODO")

Verdicts(u) == Cardinality({k \in 1..Len(log) : log[k].url = u})

\* C11 as stated: in a finished audit run every isoUrl and every logoUrl
\* literal of the file has received exactly one verdict.
C11_EveryUrlOneVerdict ==
    phase = "done" =>
        \A i \in 1..Len(content) : Verdicts(content[i].url) = 1

\* C11 amended: in a finished audit run a URL has exactly one verdict when
\* some literal carrying it is kept by the extraction filter, and no verdict
\* otherwise; during the run no URL ever has more than one verdict.
C11_EveryAuditedUrlOneVerdict ==
    /\ \A u \in UrlChoices : Verdicts(u) <= 1
    /\ phase = "done" =>
          \A u \in UrlChoices :
              Verdicts(u) =
                  IF \E i \in 1..Len(content) :
                        content[i].url = u /\ Audited(content[i])
                  THEN 1 ELSE 0

\* reached: a finished run over a file that names one URL twice, an isoUrl
\* with "TODO" and a placeholder logo; the first has its verdict and the
\* other two have none
C11_Witness ==
    /\ phase = "done"
    /\ \E i, j \in 1..Len(content) :
          /\ i # j
          /\ content[i].url = content[j].url
          /\ Audited(content[i])
          /\ Verdicts(content[i].url) = 1
    /\ \E i \in 1..Len(content) :
          ~Audited(content[i]) /\ Verdicts(content[i].url) = 0

\* request k has been answered, has failed or has been aborted: the awaited
\* fetch has settled
Settled(k) ==
    IF requests[k].method = "HEAD"
    THEN headResult[requests[k].url] # "pending"
    ELSE Tagged(requests[k].url, {"OK-GET", "FAIL", "FAIL-ERR"})

InFlight == {k \in 1..Len(requests) : ~Settled(k)}

\* C12: at most one request is in flight at any time, and it is the one sent
\* last: no request is started while an earlier one has not settled.
C12_OneRequestInFlight ==
    /\ Cardinality(InFlight) <= 1
    /\ InFlight \subseteq {Len(requests)}

\* reached: the HEAD of a second URL is in flight after the first URL took a
\* HEAD and a fallback GET, both settled
C12_Witness ==
    /\ Len(requests) = 3
    /\ requests[2].method = "GET"
    /\ InFlight = {3}
    /\ Settled(1) /\ Settled(2)

----------------------------------------------------------------------------
(* The database of shared/schema.ts and the access layer, server/storage.ts. *)
(* A row keeps the columns the routes and scripts depend on.               *)

\* Largest id handed out to a distribution.
MaxSerial == 2

\* Largest id handed out to a release, and to a download.
MaxRows == 2

\* Largest id handed out to a download click.
MaxClicks == 1

\* Largest id handed out to a news row.
MaxNews == 2

\* the matcher and the auditor not run
ClientIdle ==
    /\ distributions = <<>>
    /\ inputs = [experience |-> "beginner", useCases |-> <<"desktop">>, hardware |-> "modern"]
    /\ returned = NoCall
    /\ LinksIdle

Tables == {"distributions", "releases", "downloads", "downloadClicks", "news"}

Ids(rows) == {r.id : r \in rows}

\* an insert that ignores the references of the row
ForeignKeyUnchecked(d, table, data) == TRUE

\* distroId references distributions.id, releaseId references releases.id
ForeignKeyHolds(d, table, data) ==
    CASE table = "releases" -> data.distroId \in Ids(d.distributions)
      [] table = "downloads" -> data.releaseId \in Ids(d.releases)
      [] table = "downloadClicks" -> data.distroId \in Ids(d.distributions)
      [] OTHER -> TRUE

\* db.insert(table).values(data).returning(): the row gets the next value of
\* the identity column; a violated constraint rejects the statement, which
\* throws.  The ids are opaque: a rejected insert is not made to use one up.
Insert(d, table, data) ==
    LET id == d.serial[table] + 1
        row == [id |-> id] @@ data
    IN  IF ForeignKeyHolds(d, table, data)
        THEN [db |-> [d EXCEPT ![table] = @ \cup {row}, !.serial[table] = id],
              threw |-> FALSE, row |-> row]
        ELSE [db |-> d, threw |-> TRUE, row |-> [id |-> 0]]

\* db.delete(downloads)
DeleteDownloads(d) == [d EXCEPT !.downloads = {}]

\* db.delete(releases) for the releases with an id in gone; onDelete: "cascade"
\* takes their downloads
DeleteReleases(d, gone) ==
    [d EXCEPT !.releases = {r \in @ : r.id \notin gone},
              !.downloads = {w \in @ : w.releaseId \notin gone}]

\* db.delete(distributions) for the distributions with an id in gone;
\* onDelete: "cascade" takes their releases, the downloads of those, and
\* their download clicks
DeleteDistributions(d, gone) ==
    LET rels == {r \in d.releases : r.distroId \in gone}
        less == DeleteReleases(d, Ids(rels))
    IN  [less EXCEPT !.distributions = {x \in @ : x.id \notin gone},
                     !.downloadClicks = {c \in @ : c.distroId \notin gone}]

\* db.delete(distributions).where(inArray(distributions.name, names))
\* the names are left in the table
DeleteNoName(d, names) == d

DeleteByName(d, names) ==
    DeleteDistributions(d, {x.id : x \in {y \in d.distributions : y.name \in names}})

createDistribution(d, data) == Insert(d, "distributions", data)
createRelease(d, data) == Insert(d, "releases", data)
createDownload(d, data) == Insert(d, "downloads", data)
createNews(d, data) == Insert(d, "news", data)
recordDownloadClick(d, distroId, now) ==
    Insert(d, "downloadClicks", [distroId |-> distroId, clickedAt |-> now])

SerialCap ==
    [distributions |-> MaxSerial, releases |-> MaxRows, downloads |-> MaxRows,
     downloadClicks |-> MaxClicks, news |-> MaxNews]

\* every identity sequence is within the values the model hands out
Within(d) == \A t \in Tables : d.serial[t] <= SerialCap[t]

----------------------------------------------------------------------------
(* Seeding, storage.ts seedDatabase and seedAdditionalDistros, on a        *)
(* catalog reduced to a few entries of each kind.                          *)

\* the distributions seedDatabase creates on an empty catalog: of the fifty,
\* one that is also on the list seedAdditionalDistros deletes
FreshNames == <<"Zorin OS">>

\* the releases seedDatabase then creates, each with one download: five of
\* the fifty distributions get one, and the one kept here does not
FreshReleases == <<>>

\* the source URLs of the news seedDatabase creates: one of the five
SeedNews == << "https://ubuntu.com/blog/ubuntu-24-04-lts-noble-numbat" >>

\* the names seedAdditionalDistros deletes
AdditionalNames == {"Bazzite", "Zorin OS"}

\* the distributions seedAdditionalDistros creates, each with one release and
\* one download
AdditionalSeed ==
    << [name |-> "Bazzite", versionNumber |-> "Fedora 39",
        releaseDate |-> 19723, isLts |-> FALSE,
        isoUrl |-> "https://download.bazzite.gg/bazzite-stable-amd64.iso",
        torrentUrl |-> NULL] >>

RECURSIVE SeedDistributions(_, _, _)
SeedDistributions(st, names, i) ==
    IF i > Len(names) THEN st
    ELSE LET a == createDistribution(st.db, [name |-> names[i]])
         IN  SeedDistributions([db |-> a.db, ids |-> (names[i] :> a.row.id) @@ st.ids],
                               names, i + 1)

\* createRelease for the distribution, then createDownload for the release
SeedRelease(d, distroId, e) ==
    LET r == createRelease(d, [distroId |-> distroId, versionNumber |-> e.versionNumber,
                               releaseDate |-> e.releaseDate, isLts |-> e.isLts])
        w == createDownload(r.db, [releaseId |-> r.row.id, isoUrl |-> e.isoUrl,
                                   torrentUrl |-> e.torrentUrl])
    IN  w.db

RECURSIVE SeedReleases(_, _, _, _)
SeedReleases(d, ids, list, i) ==
    IF i > Len(list) THEN d
    ELSE SeedReleases(SeedRelease(d, ids[list[i].name], list[i]), ids, list, i + 1)

RECURSIVE SeedNewsItems(_, _, _)
SeedNewsItems(d, list, i) ==
    IF i > Len(list) THEN d
    ELSE SeedNewsItems(createNews(d, [sourceUrl |-> list[i]]).db, list, i + 1)

RECURSIVE SeedAdditional(_, _, _)
SeedAdditional(d, list, i) ==
    IF i > Len(list) THEN d
    ELSE LET a == createDistribution(d, [name |-> list[i].name])
         IN  SeedAdditional(SeedRelease(a.db, a.row.id, list[i]), list, i + 1)

seedAdditionalDistros(d) ==
    SeedAdditional(DeleteByName(d, AdditionalNames), AdditionalSeed, 1)

seedDatabase(d) ==
    IF d.distributions # {}
    THEN seedAdditionalDistros(d)
    ELSE LET a == SeedDistributions([db |-> d, ids |-> <<>>], FreshNames, 1)
         IN  SeedNewsItems(SeedReleases(a.db, a.ids, FreshReleases, 1), SeedNews, 1)

----------------------------------------------------------------------------
(* The scripts that write the database.                                    *)

\* the names scripts/delete_distros deletes
RemovedNames == {"Bazzite"}

\* full_backup.json files the import is run on: the rows of an export, in
\* the order of the file.  A file may name a parent it does not hold.
BackupDistributions ==
    { <<>>,
      << [id |-> 1, name |-> "Ubuntu"] >>,
      << [id |-> 1, name |-> "Ubuntu"], [id |-> 2, name |-> "Zorin OS"] >> }

BackupRelease(id, distroId) ==
    [id |-> id, distroId |-> distroId, versionNumber |-> "24.04.3 LTS (Noble Numbat)",
     releaseDate |-> 19838, isLts |-> TRUE]

BackupReleases == { <<>>, << BackupRelease(1, 1), BackupRelease(2, 3) >> }

BackupDownload(id, releaseId) ==
    [id |-> id, releaseId |-> releaseId,
     isoUrl |-> "https://releases.ubuntu.com/noble/ubuntu-24.04.3-desktop-amd64.iso",
     torrentUrl |-> NULL]

BackupDownloads == { <<>>, << BackupDownload(1, 1), BackupDownload(2, 2) >> }

Backups ==
    [distributions : BackupDistributions, releases : BackupReleases,
     downloads : BackupDownloads]

RECURSIVE ImportDistributions(_, _, _)
ImportDistributions(d, list, i) ==
    IF i > Len(list) THEN d
    ELSE ImportDistributions(Insert(d, "distributions", [name |-> list[i].name]).db,
                             list, i + 1)

\* distroMapping[oldDistro.id] = newDistros.find(d => d.name === oldDistro.name).id;
\* the names of a file of Backups are distinct, so find has one candidate
DistroMapping(d, list) ==
    LET found(i) == {x \in d.distributions : x.name = list[i].name}
        olds == {i \in 1..Len(list) : found(i) # {}}
    IN  [old \in {list[i].id : i \in olds} |->
            LET i == CHOOSE j \in olds : list[j].id = old
            IN  (CHOOSE x \in found(i) : TRUE).id]

RECURSIVE ImportReleases(_, _, _, _)
ImportReleases(st, list, i, distroMapping) ==
    IF i > Len(list) THEN st
    ELSE IF list[i].distroId \notin DOMAIN distroMapping
         THEN ImportReleases(st, list, i + 1, distroMapping)
         ELSE LET r == Insert(st.db, "releases",
                              [distroId |-> distroMapping[list[i].distroId],
                               versionNumber |-> list[i].versionNumber,
                               releaseDate |-> list[i].releaseDate,
                               isLts |-> list[i].isLts])
              IN  ImportReleases([db |-> r.db,
                                  mapping |-> (list[i].id :> r.row.id) @@ st.mapping],
                                 list, i + 1, distroMapping)

RECURSIVE ImportDownloads(_, _, _, _)
ImportDownloads(d, list, i, releaseMapping) ==
    IF i > Len(list) THEN d
    ELSE IF list[i].releaseId \notin DOMAIN releaseMapping
         THEN ImportDownloads(d, list, i + 1, releaseMapping)
         ELSE ImportDownloads(
                  Insert(d, "downloads",
                         [releaseId |-> releaseMapping[list[i].releaseId],
                          isoUrl |-> list[i].isoUrl,
                          torrentUrl |-> list[i].torrentUrl]).db,
                  list, i + 1, releaseMapping)

\* the three tables are cleared, then the rows of the file are inserted with
\* the ids of their parents mapped to the new ids
importDatabase(d, backup) ==
    LET cleared == DeleteDistributions(
                       DeleteReleases(DeleteDownloads(d), Ids(d.releases)),
                       Ids(d.distributions))
        withDistros == ImportDistributions(cleared, backup.distributions, 1)
        distroMapping == DistroMapping(withDistros, backup.distributions)
        withReleases == ImportReleases([db |-> withDistros, mapping |-> <<>>],
                                       backup.releases, 1, distroMapping)
    IN  ImportDownloads(withReleases.db, backup.downloads, 1, withReleases.mapping)

\* the items of the feeds: a title and a link, either of which may be absent
NewsUrls ==
    { "https://ubuntu.com/blog/ubuntu-24-04-lts-noble-numbat",
      "https://9to5linux.com/linux-kernel-6-12" }

FeedItems == [title : {NULL, "Linux news"}, link : NewsUrls \cup {NULL}]

\* the body of the loop over the items of a feed: an item without a title or
\* a link is passed over, one whose link is the source URL of a row is
\* counted as skipped, any other is inserted
fetchNewsItem(d, item) ==
    IF item.title = NULL \/ item.link = NULL THEN d
    ELSE IF \E n \in d.news : n.sourceUrl = item.link THEN d
    ELSE Insert(d, "news", [sourceUrl |-> item.link]).db

----------------------------------------------------------------------------
(* Request parsing: parseInt on the path parameter, and the zod schema     *)
(* updateDownloadUrlSchema on the body of the PATCH.                       *)

\* Values of the :id and :distroId path parameters.
ParamChoices == {"1", "2", "9", "abc", "2abc"}

DecimalDigits == "0123456789"
HexDigits == "0123456789abcdef"

RECURSIVE SkipWhiteSpace(_, _)
SkipWhiteSpace(s, i) ==
    IF i <= Len(s) /\ Char(s, i) = " " THEN SkipWhiteSpace(s, i + 1) ELSE i

\* the longest run of digits of the radix from position i on
RECURSIVE ReadDigits(_, _, _, _)
ReadDigits(s, i, digits, st) ==
    IF i > Len(s) \/ IndexIn(digits, ToLower(Char(s, i))) = 0 THEN st
    ELSE ReadDigits(s, i + 1, digits,
                    [any |-> TRUE,
                     v |-> st.v * Len(digits) + IndexIn(digits, ToLower(Char(s, i))) - 1])

\* parseInt(string): leading white space is dropped, a sign is read, a 0x
\* prefix selects radix 16, then the longest prefix of digits is the value
\* and whatever follows is ignored; NaN when there is no digit
parseInt(s) ==
    LET i == SkipWhiteSpace(s, 1)
        neg == i <= Len(s) /\ Char(s, i) = "-"
        j == IF i <= Len(s) /\ Char(s, i) \in {"+", "-"} THEN i + 1 ELSE i
        hex == j + 1 <= Len(s) /\ SubSeq(s, j, j + 1) \in {"0x", "0X"}
        r == IF hex
             THEN ReadDigits(s, j + 2, HexDigits, [any |-> FALSE, v |-> 0])
             ELSE ReadDigits(s, j, DecimalDigits, [any |-> FALSE, v |-> 0])
    IN  IF ~r.any THEN NaN ELSE Num(IF neg THEN 0 - r.v ELSE r.v)

isNaN(x) == x.nan

\* parseInt(req.params.id), tabulated over the parameters of the model
ParamId == [p \in ParamChoices |-> parseInt(p)]

\* Values of the isoUrl and torrentUrl properties of the PATCH body.
IsoBodyChoices ==
    {Absent, "not a url", "https://mirror.org/a.iso", "https://example.com/a.iso"}
TorrentBodyChoices ==
    {Absent, "", "not a url", "https://mirror.org/a.iso.torrent"}

Bodies == [isoUrl : IsoBodyChoices, torrentUrl : TorrentBodyChoices]

SchemeChars == "abcdefghijklmnopqrstuvwxyz0123456789+-."
SpecialSchemes == {"http", "https", "ftp", "ws", "wss"}

\* new URL(s) does not throw: s starts with a scheme and a colon, and after
\* a special scheme and its slashes a host follows
IsUrl(s) ==
    \E i \in 2..Len(s) :
        /\ Char(s, i) = ":"
        /\ IndexIn(LowerLetters, ToLower(Char(s, 1))) > 0
        /\ \A j \in 1..(i - 1) : IndexIn(SchemeChars, ToLower(Char(s, j))) > 0
        /\ SubSeq(s, 1, i - 1) \in SpecialSchemes =>
              \E k \in (i + 1)..Len(s) :
                  /\ Char(s, k) \notin {"/", "\\", "?", "#", ":"}
                  /\ \A j \in (i + 1)..(k - 1) : Char(s, j) \in {"/", "\\"}

\* z.string().url(), tabulated over the strings of the model
UrlCheck == [s \in (IsoBodyChoices \cup TorrentBodyChoices) \ {Absent} |-> IsUrl(s)]

\* isoUrl: z.string().url("Must be a valid URL")
IsoUrlErrors(v) ==
    IF v = Absent THEN <<"Required">>
    ELSE IF ~UrlCheck[v] THEN <<"Must be a valid URL">>
    ELSE <<>>

\* torrentUrl: z.string().optional(), any string passing
TorrentUrlUnchecked(v) == <<>>

\* torrentUrl: z.string().url("Must be a valid URL").optional().or(z.literal(""))
TorrentUrlErrors(v) ==
    IF v = Absent \/ v = "" THEN <<>>
    ELSE IF ~UrlCheck[v] THEN <<"Must be a valid URL">>
    ELSE <<>>

\* updateDownloadUrlSchema.safeParse(req.body) with error.flatten().fieldErrors:
\* one entry for each property that has errors
safeParse(body) ==
    LET errs == [isoUrl |-> IsoUrlErrors(body.isoUrl),
                 torrentUrl |-> TorrentUrlErrors(body.torrentUrl)]
        bad == {f \in DOMAIN errs : errs[f] # <<>>}
    IN  [success |-> bad = {}, fieldErrors |-> [f \in bad |-> errs[f]], data |-> body]

----------------------------------------------------------------------------
(* The queries of server/storage.ts.  A result whose order no route        *)
(* depends on is given as the set of its rows.                             *)

\* Values of downloads.isoUrl in the catalogs the API is run on.
IsoStored ==
    {"", "https://mirror.org/a.iso", "https://example.com/a.iso",
     "https://mirror.org/TODO.iso", "https://mirror.org/placeholder.iso"}

Undefined == "<undefined>"

\* column LIKE '%sub%': sub occurs in the column, case and all
Like(s, sub) == StrIncludes(s, sub)

\* the where clause of getBrokenDownloads without its last pattern
BrokenWhereNoTodo(isoUrl) ==
    \/ isoUrl = NULL
    \/ isoUrl = ""
    \/ Like(isoUrl, "placeholder")
    \/ Like(isoUrl, "example")

\* the where clause of getBrokenDownloads
BrokenWhere(isoUrl) ==
    \/ isoUrl = NULL
    \/ isoUrl = ""
    \/ Like(isoUrl, "placeholder")
    \/ Like(isoUrl, "example")
    \/ Like(isoUrl, "TODO")

\* the where clause, tabulated over the stored values of the model
BrokenMatch ==
    [u \in IsoStored \cup {AdditionalSeed[i].isoUrl : i \in 1..Len(AdditionalSeed)} |->
        BrokenWhere(u)]

\* downloads inner join releases inner join distributions where ...
getBrokenDownloads(d) ==
    { [id |-> w.id, releaseId |-> w.releaseId, isoUrl |-> w.isoUrl,
       torrentUrl |-> w.torrentUrl, distroName |-> x.name,
       versionNumber |-> r.versionNumber] :
          <<w, r, x>> \in {t \in d.downloads \X d.releases \X d.distributions :
                              /\ t[1].releaseId = t[2].id
                              /\ t[2].distroId = t[3].id
                              /\ BrokenMatch[t[1].isoUrl]} }

\* with: { downloads: true }
WithDownloads(d, r) ==
    [id |-> r.id, distroId |-> r.distroId, versionNumber |-> r.versionNumber,
     releaseDate |-> r.releaseDate, isLts |-> r.isLts,
     downloads |-> {w \in d.downloads : w.releaseId = r.id}]

\* the orders in which the database may return rows under
\* orderBy: [desc(releases.releaseDate)]: rows of one date come in any order
DescOrders(rows) ==
    {s \in [1..Cardinality(rows) -> rows] :
        /\ \A i, j \in DOMAIN s : i # j => s[i] # s[j]
        /\ \A i, j \in DOMAIN s : i < j => s[i].releaseDate >= s[j].releaseDate}

\* getReleasesByDistro: the results it may return
getReleasesByDistro(d, distroId) ==
    DescOrders({WithDownloads(d, r) : r \in {q \in d.releases : q.distroId = distroId}})

\* (a, b) => new Date(a.releaseDate).getTime() - new Date(b.releaseDate).getTime()
ReleaseCompareAscending(a, b) == a.releaseDate - b.releaseDate

\* (a, b) => new Date(b.releaseDate).getTime() - new Date(a.releaseDate).getTime()
ReleaseCompare(a, b) == b.releaseDate - a.releaseDate

\* one step of the stable insertion of Array.prototype.sort
ReleaseInsert(prefix, x) ==
    LET stops == {m \in 1..Len(prefix) : ~(ReleaseCompare(x, prefix[m]) < 0)}
        j == IF stops = {} THEN 0 ELSE CHOOSE m \in stops : \A k \in stops : k <= m
    IN  SubSeq(prefix, 1, j) \o <<x>> \o SubSeq(prefix, j + 1, Len(prefix))

RECURSIVE ReleaseSortLoop(_, _, _)
ReleaseSortLoop(arr, i, acc) ==
    IF i > Len(arr) THEN acc ELSE ReleaseSortLoop(arr, i + 1, ReleaseInsert(acc, arr[i]))

\* distroReleases.sort((a, b) => ...)
ReleaseSort(arr) == ReleaseSortLoop(arr, 1, <<>>)

\* one entry of getDistributionsWithLatestRelease, for the releases as the
\* database returned them
LatestEntry(x, distroReleases) ==
    IF Len(distroReleases) > 0
    THEN LET latestRelease == ReleaseSort(distroReleases)[1]
         IN  [id |-> x.id, name |-> x.name,
              latestVersion |-> latestRelease.versionNumber,
              isLatestLts |-> latestRelease.isLts]
    ELSE [id |-> x.id, name |-> x.name, latestVersion |-> NULL, isLatestLts |-> FALSE]

\* getDistributionsWithLatestRelease(): the results it may return
getDistributionsWithLatestRelease(d) ==
    LET entries(x) == {LatestEntry(x, rs) : rs \in getReleasesByDistro(d, x.id)}
        all == UNION {entries(x) : x \in d.distributions}
    IN  { {f[x] : x \in d.distributions} :
            f \in {g \in [d.distributions -> all] :
                      \A x \in d.distributions : g[x] \in entries(x)} }

\* getDistributionWithReleases(id): the row with its releases, or undefined
getDistributionWithReleases(d, id) ==
    LET found == {x \in d.distributions : x.id = id}
    IN  IF found = {} THEN [undefined |-> TRUE]
        ELSE LET x == CHOOSE y \in found : TRUE
             IN  [undefined |-> FALSE, id |-> x.id, name |-> x.name,
                  releases |-> {WithDownloads(d, r) :
                                   r \in {q \in d.releases : q.distroId = id}}]

\* updateDownloadUrl(id, isoUrl, torrentUrl): torrentUrl is set only when it
\* is not undefined; the updated row is returned, or undefined
updateDownloadUrl(d, id, isoUrl, torrentUrl) ==
    LET found == {w \in d.downloads : w.id = id}
        set(w) == IF torrentUrl # Undefined
                  THEN [w EXCEPT !.isoUrl = isoUrl, !.torrentUrl = torrentUrl]
                  ELSE [w EXCEPT !.isoUrl = isoUrl]
    IN  IF found = {} THEN [db |-> d, undefined |-> TRUE]
        ELSE LET w == CHOOSE y \in found : TRUE
             IN  [db |-> [d EXCEPT !.downloads = (@ \ {w}) \cup {set(w)}],
                  undefined |-> FALSE, updated |-> set(w)]

----------------------------------------------------------------------------
(* The route handlers of server/routes.ts.  Each gives the database after  *)
(* the request, the responses sent, the number of storage calls made,      *)
(* whether an exception was thrown, and whether the process still serves.  *)
(* fails tells that the database rejects the query of the storage call.    *)

Response(status, reply) == [status |-> status, reply |-> reply]

\* return res.status(...).json(...) or res.json(...) at the end of the try block
Sent(d, status, reply, calls) ==
    [db |-> d, sent |-> <<Response(status, reply)>>, calls |-> calls,
     threw |-> FALSE, up |-> TRUE]

\* a handler without the try block: the exception leaves the handler, no
\* response is sent and the rejection ends the process
Uncaught(d, message, calls) ==
    [db |-> d, sent |-> <<>>, calls |-> calls, threw |-> TRUE, up |-> FALSE]

\* catch (error) { console.error(...); res.status(500).json({ error: message }) }
Caught(d, message, calls) ==
    [db |-> d, sent |-> <<Response(500, [error |-> message])>>, calls |-> calls,
     threw |-> TRUE, up |-> TRUE]

\* app.get("/api/distributions"): the results the handler may have
GetDistributionsHandler(d, fails) ==
    IF fails THEN {Caught(d, "Failed to fetch distributions", 1)}
    ELSE {Sent(d, 200, distros, 1) : distros \in getDistributionsWithLatestRelease(d)}

\* app.get("/api/distributions/:id")
GetDistributionHandler(d, p, fails) ==
    LET id == ParamId[p]
    IN  IF isNaN(id) THEN Sent(d, 400, [error |-> "Invalid distribution ID"], 0)
        ELSE IF fails THEN Caught(d, "Failed to fetch distribution", 1)
        ELSE LET distro == getDistributionWithReleases(d, id.v)
             IN  IF distro.undefined
                 THEN Sent(d, 404, [error |-> "Distribution not found"], 1)
                 ELSE Sent(d, 200, distro, 1)

\* app.get("/api/distributions/:id/releases"): the results the handler may have
GetReleasesHandler(d, p, fails) ==
    LET distroId == ParamId[p]
    IN  IF isNaN(distroId) THEN {Sent(d, 400, [error |-> "Invalid distribution ID"], 0)}
        ELSE IF fails THEN {Caught(d, "Failed to fetch releases", 1)}
        ELSE {Sent(d, 200, releases, 1) : releases \in getReleasesByDistro(d, distroId.v)}

\* app.post("/api/download-clicks/:distroId")
PostDownloadClickHandler(d, p, fails, now) ==
    LET distroId == ParamId[p]
    IN  IF isNaN(distroId) THEN Sent(d, 400, [error |-> "Invalid distribution ID"], 0)
        ELSE IF fails THEN Caught(d, "Failed to record download click", 1)
        ELSE LET r == recordDownloadClick(d, distroId.v, now)
             IN  IF r.threw THEN Caught(r.db, "Failed to record download click", 1)
                 ELSE Sent(r.db, 200, [success |-> TRUE], 1)

\* app.get("/api/admin/broken-downloads")
GetBrokenDownloadsHandler(d, fails) ==
    IF fails THEN Caught(d, "Failed to fetch broken downloads", 1)
    ELSE Sent(d, 200, getBrokenDownloads(d), 1)

\* torrentUrl || undefined
\* the torrent URL handed on as it was sent
AsSent(v) == v

OrUndefined(v) == IF v = Absent \/ v = "" THEN Undefined ELSE v

\* app.patch("/api/admin/downloads/:id")
PatchDownloadHandler(d, p, body, fails) ==
    LET id == ParamId[p]
        parseResult == safeParse(body)
    IN  IF isNaN(id) THEN Sent(d, 400, [error |-> "Invalid download ID"], 0)
        ELSE IF ~parseResult.success
        THEN Sent(d, 400, [error |-> "Validation failed",
                           details |-> parseResult.fieldErrors], 0)
        ELSE IF fails THEN Caught(d, "Failed to update download", 1)
        ELSE LET r == updateDownloadUrl(d, id.v, parseResult.data.isoUrl,
                                        OrUndefined(parseResult.data.torrentUrl))
             IN  IF r.undefined
                 THEN Sent(r.db, 404, [error |-> "Download not found"], 1)
                 ELSE Sent(r.db, 200, r.updated, 1)

\* the request is handled by a serving process and its outcome is r
Handle(route, p, body, fails, r) ==
    /\ exchange.up
    /\ Within(r.db)
    /\ db' = r.db
    /\ exchange' = [route |-> route, param |-> p, body |-> body, fails |-> fails,
                    sent |-> r.sent, calls |-> r.calls, threw |-> r.threw, up |-> r.up]
    /\ UNCHANGED <<matcherVars, linkVars, restVars>>

GetDistributions ==
    \E fails \in BOOLEAN :
        \E r \in GetDistributionsHandler(db, fails) :
            Handle("GET /api/distributions", "", Absent, fails, r)

GetDistribution ==
    \E p \in ParamChoices, fails \in BOOLEAN :
        Handle("GET /api/distributions/:id", p, Absent, fails,
               GetDistributionHandler(db, p, fails))

GetReleases ==
    \E p \in ParamChoices, fails \in BOOLEAN :
        \E r \in GetReleasesHandler(db, p, fails) :
            Handle("GET /api/distributions/:id/releases", p, Absent, fails, r)

PostDownloadClick ==
    \E p \in ParamChoices, fails \in BOOLEAN :
        Handle("POST /api/download-clicks/:distroId", p, Absent, fails,
               PostDownloadClickHandler(db, p, fails, clock))

GetBrokenDownloads ==
    \E fails \in BOOLEAN :
        Handle("GET /api/admin/broken-downloads", "", Absent, fails,
               GetBrokenDownloadsHandler(db, fails))

PatchDownload ==
    \E p \in ParamChoices, body \in Bodies, fails \in BOOLEAN :
        Handle("PATCH /api/admin/downloads/:id", p, body, fails,
               PatchDownloadHandler(db, p, body, fails))

----------------------------------------------------------------------------
(* The server and the scripts on one database.                             *)

\* registerRoutes: seedDatabase is awaited, then the routes are registered
\* and the process serves
ServerStart ==
    /\ db' = seedDatabase(db)
    /\ Within(db')
    /\ exchange' = [NoExchange EXCEPT !.up = TRUE]
    /\ UNCHANGED <<matcherVars, linkVars, restVars>>

\* the script that deletes distributions by name
RemoveDistros ==
    /\ db' = DeleteByName(db, RemovedNames)
    /\ UNCHANGED <<exchange, matcherVars, linkVars, restVars>>

\* the import script, run on a backup file
ImportDatabase ==
    \E backup \in Backups :
        /\ db' = importDatabase(db, backup)
        /\ Within(db')
        /\ UNCHANGED <<exchange, matcherVars, linkVars, restVars>>

\* a call of storage.createDistribution
CreateDistribution ==
    \E name \in {"Bazzite"} :
        /\ db' = createDistribution(db, [name |-> name]).db
        /\ Within(db')
        /\ UNCHANGED <<exchange, matcherVars, linkVars, restVars>>

\* a call of storage.createRelease, for any distroId
CreateRelease ==
    \E distroId \in 1..MaxSerial :
        /\ db' = createRelease(db, [distroId |-> distroId, versionNumber |-> "Fedora 39",
                                    releaseDate |-> 19723, isLts |-> FALSE]).db
        /\ Within(db')
        /\ UNCHANGED <<exchange, matcherVars, linkVars, restVars>>

\* a call of storage.createDownload, for any releaseId
CreateDownload ==
    \E releaseId \in 1..MaxRows :
        /\ db' = createDownload(db, [releaseId |-> releaseId,
                                     isoUrl |-> "https://download.bazzite.gg/bazzite-stable-amd64.iso",
                                     torrentUrl |-> NULL]).db
        /\ Within(db')
        /\ UNCHANGED <<exchange, matcherVars, linkVars, restVars>>

\* a call of storage.recordDownloadClick, for any distroId
RecordDownloadClick ==
    \E distroId \in 1..MaxSerial :
        /\ db' = recordDownloadClick(db, distroId, clock).db
        /\ Within(db')
        /\ UNCHANGED <<exchange, matcherVars, linkVars, restVars>>

InitStore ==
    /\ ServerIdle
    /\ ClientIdle
    /\ RestIdle

NextStore ==
    \/ ServerStart
    \/ RemoveDistros
    \/ ImportDatabase
    \/ CreateDistribution
    \/ CreateRelease
    \/ CreateDownload
    \/ RecordDownloadClick

SpecStore == InitStore /\ [][NextStore]_vars

\* C18: every release references an existing distribution, every download an
\* existing release and every download click an existing distribution.
C18_ReferencesExist ==
    /\ \A r \in db.releases : r.distroId \in Ids(db.distributions)
    /\ \A w \in db.downloads : w.releaseId \in Ids(db.releases)
    /\ \A c \in db.downloadClicks : c.distroId \in Ids(db.distributions)

\* reached: a distribution that had a release, a download and a click has been
\* deleted and they went with it, while the release and the download of
\* another distribution remain
C18_Witness ==
    /\ db.releases # {} /\ db.downloads # {}
    /\ \E id \in 1..db.serial.distributions : id \notin Ids(db.distributions)
    /\ \E id \in 1..db.serial.releases : id \notin Ids(db.releases)
    /\ \E id \in 1..db.serial.downloads : id \notin Ids(db.downloads)
    /\ \E id \in 1..db.serial.downloadClicks : id \notin Ids(db.downloadClicks)

----------------------------------------------------------------------------
(* The news table under the operations that insert into it.                *)

\* one item of a feed is processed by scripts/fetch-news.ts
FetchNewsItem ==
    \E item \in FeedItems :
        /\ db' = fetchNewsItem(db, item)
        /\ Within(db')
        /\ UNCHANGED <<exchange, matcherVars, linkVars, restVars>>

\* a call of storage.createNews
CreateNews ==
    \E sourceUrl \in NewsUrls :
        /\ db' = createNews(db, [sourceUrl |-> sourceUrl]).db
        /\ Within(db')
        /\ UNCHANGED <<exchange, matcherVars, linkVars, restVars>>

NextNews ==
    \/ ServerStart
    \/ ImportDatabase
    \/ FetchNewsItem
    \/ CreateNews

SpecNews == InitStore /\ [][NextNews]_vars

\* C13: no two rows of the news table have the same source URL.
C13_SourceUrlUnique ==
    \A a, b \in db.news : a.sourceUrl = b.sourceUrl => a = b

----------------------------------------------------------------------------
(* The API on the seeded catalog.                                          *)

\* the server serves the catalog of a database seeded by a first start and
\* re-seeded by a second
InitApi ==
    /\ db = seedDatabase(seedDatabase(EmptyDb))
    /\ exchange = [NoExchange EXCEPT !.up = TRUE]
    /\ ClientIdle
    /\ RestIdle

NextApi ==
    \/ GetDistributions
    \/ GetDistribution
    \/ GetReleases
    \/ PostDownloadClick
    \/ GetBrokenDownloads
    \/ PatchDownload

SpecApi == InitApi /\ [][NextApi]_vars

----------------------------------------------------------------------------
(* The listings on catalogs of every shape.                                *)

CatalogDistributions == {[id |-> 1, name |-> "Ubuntu"], [id |-> 2, name |-> "Zorin OS"]}

ReleaseDates == {19723, 19838}
ReleaseVersions == <<"22.04", "24.04", "24.10", "25.04">>

\* the releases of the first distribution: up to MaxRows of them, of any
\* date and LTS flag
ReleaseTables ==
    UNION { { { [id |-> i, distroId |-> 1, versionNumber |-> ReleaseVersions[i],
                 releaseDate |-> f[i].releaseDate, isLts |-> f[i].isLts] : i \in 1..n } :
              f \in [1..n -> [releaseDate : ReleaseDates, isLts : BOOLEAN]] } :
            n \in 0..MaxRows }

OneRelease ==
    { [id |-> 1, distroId |-> 1, versionNumber |-> ReleaseVersions[1],
       releaseDate |-> 19838, isLts |-> TRUE] }

\* the downloads of that release: none, one or two, of any stored ISO URL
DownloadTables ==
    UNION { { { [id |-> i, releaseId |-> 1, isoUrl |-> f[i], torrentUrl |-> NULL] : i \in S } :
              f \in [S -> IsoStored] } :
            S \in {{}, {1}, {1, 2}} }

Catalog(rels, dls) ==
    [distributions |-> CatalogDistributions, releases |-> rels, downloads |-> dls,
     downloadClicks |-> {}, news |-> {},
     serial |-> [distributions |-> 2, releases |-> Cardinality(rels),
                 downloads |-> Cardinality(dls), downloadClicks |-> 0, news |-> 0]]

Catalogs ==
    {Catalog(rels, {}) : rels \in ReleaseTables}
        \cup {Catalog(OneRelease, dls) : dls \in DownloadTables}

InitCatalog ==
    /\ db \in Catalogs
    /\ exchange = [NoExchange EXCEPT !.up = TRUE]
    /\ ClientIdle
    /\ RestIdle

NextCatalog ==
    \/ GetDistributions
    \/ GetBrokenDownloads

SpecCatalog == InitCatalog /\ [][NextCatalog]_vars

----------------------------------------------------------------------------
(* Properties of the API.                                                  *)

IdRoutes ==
    {"GET /api/distributions/:id", "GET /api/distributions/:id/releases",
     "POST /api/download-clicks/:distroId", "PATCH /api/admin/downloads/:id"}

Handled == exchange.route # "none"

Status == exchange.sent[1].status
Reply == exchange.sent[1].reply

\* the parameter is a decimal numeral
WellFormed == [p \in ParamChoices |->
                  /\ Len(p) > 0
                  /\ \A i \in 1..Len(p) : IndexIn(DecimalDigits, Char(p, i)) > 0]

\* the value of a decimal numeral
NumeralValue == [p \in {q \in ParamChoices : WellFormed[q]} |-> ParamId[p].v]

\* the row the route addresses by the id exists
RowExists(route, id) ==
    IF route = "PATCH /api/admin/downloads/:id"
    THEN id \in Ids(db.downloads)
    ELSE id \in Ids(db.distributions)

\* the body fails the schema: ISO URL missing or not a URL, torrent URL
\* neither a URL nor empty
IsoInvalid(body) == body.isoUrl = Absent \/ ~UrlCheck[body.isoUrl]
TorrentInvalid(body) == body.torrentUrl \notin {Absent, ""} /\ ~UrlCheck[body.torrentUrl]
BodyInvalid(body) == IsoInvalid(body) \/ TorrentInvalid(body)

\* C14 as stated: a request on one of the four routes with a numeric id in
\* the path, whose id names no row, is answered with 404 (the database being
\* available and, for the PATCH, the body valid).
C14_MissingRowIs404 ==
    ( /\ Handled
      /\ exchange.route \in IdRoutes
      /\ ~exchange.fails
      /\ WellFormed[exchange.param]
      /\ ~RowExists(exchange.route, NumeralValue[exchange.param])
      /\ exchange.route = "PATCH /api/admin/downloads/:id" => ~BodyInvalid(exchange.body) )
        => Status = 404

\* C15 as stated: a request on one of the four routes whose path parameter is
\* not a well-formed number is answered with 400 and no storage operation is
\* performed.
C15_MalformedIdIs400 ==
    (Handled /\ exchange.route \in IdRoutes /\ ~WellFormed[exchange.param])
        => Status = 400 /\ exchange.calls = 0

\* C16 as stated: a PATCH whose body fails the schema is answered with 400
\* carrying a message for each field that fails.
C16_InvalidBodyIs400WithFields ==
    ( /\ Handled
      /\ exchange.route = "PATCH /api/admin/downloads/:id"
      /\ BodyInvalid(exchange.body) )
        => /\ Status = 400
           /\ "details" \in DOMAIN Reply
           /\ DOMAIN Reply.details # {}

\* C16 amended: a PATCH whose id parameter parses to a number and whose body
\* fails the schema is answered with 400 "Validation failed" carrying
\* messages for exactly the fields that fail, and no storage operation is
\* performed; when the id parameter does not parse, the answer is 400
\* "Invalid download ID" without field messages, whatever the body.
C16_InvalidBodyIs400WithFieldsWhenIdParses ==
    (Handled /\ exchange.route = "PATCH /api/admin/downloads/:id") =>
        /\ (~isNaN(ParamId[exchange.param]) /\ BodyInvalid(exchange.body)) =>
              /\ Status = 400
              /\ exchange.calls = 0
              /\ Reply.error = "Validation failed"
              /\ DOMAIN Reply.details =
                    {f \in {"isoUrl"} : IsoInvalid(exchange.body)}
                        \cup {f \in {"torrentUrl"} : TorrentInvalid(exchange.body)}
              /\ \A f \in DOMAIN Reply.details : Len(Reply.details[f]) > 0
        /\ isNaN(ParamId[exchange.param]) =>
              /\ Status = 400
              /\ Reply = [error |-> "Invalid download ID"]

\* reached: a PATCH with a numeric id whose body lacks the ISO URL and has a
\* torrent URL that is not a URL, answered 400 with both fields named
C16_Witness ==
    /\ Handled
    /\ exchange.route = "PATCH /api/admin/downloads/:id"
    /\ ~isNaN(ParamId[exchange.param])
    /\ exchange.body = [isoUrl |-> Absent, torrentUrl |-> "not a url"]
    /\ Status = 400
    /\ DOMAIN Reply.details = {"isoUrl", "torrentUrl"}

\* C17: a request during which an exception is thrown gets exactly one
\* response, a 500 whose body is an error message and nothing else, and the
\* process goes on serving; every request handled gets exactly one response.
C17_ExceptionIsOne500 ==
    Handled =>
        /\ Len(exchange.sent) = 1
        /\ exchange.up
        /\ exchange.threw => (Status = 500 /\ DOMAIN Reply = {"error"})
        /\ Status = 500 => exchange.threw

\* reached: a click for an id that names no distribution, rejected by the
\* foreign key of the database that is otherwise available, answered 500
C17_Witness ==
    /\ Handled
    /\ exchange.route = "POST /api/download-clicks/:distroId"
    /\ ~exchange.fails
    /\ exchange.threw
    /\ Status = 500
    /\ Len(exchange.sent) = 1
    /\ exchange.up

----------------------------------------------------------------------------
(* Properties of the listings.                                             *)

\* the ISO URL is null, empty, or contains "placeholder", "example" or "TODO"
ListedAsBroken ==
    [u \in DOMAIN BrokenMatch |->
        \/ u = NULL
        \/ u = ""
        \/ StrIncludes(u, "placeholder")
        \/ StrIncludes(u, "example")
        \/ StrIncludes(u, "TODO")]

\* C19: the broken-downloads listing holds one row for each download whose
\* ISO URL is null, empty or contains "placeholder", "example" or "TODO",
\* with the fields of that download, and no other row.
C19_BrokenListingExact ==
    (Handled /\ exchange.route = "GET /api/admin/broken-downloads" /\ Status = 200) =>
        /\ \A w \in db.downloads :
              ListedAsBroken[w.isoUrl] <=> (\E row \in Reply : row.id = w.id)
        /\ \A row \in Reply :
              \E w \in db.downloads :
                  /\ row.id = w.id
                  /\ row.isoUrl = w.isoUrl
                  /\ row.torrentUrl = w.torrentUrl
                  /\ row.releaseId = w.releaseId
        /\ Cardinality(Reply) <= Cardinality(db.downloads)

\* reached: a listing over two downloads that holds the one whose ISO URL
\* contains "TODO" and not the other
C19_Witness ==
    /\ Handled
    /\ exchange.route = "GET /api/admin/broken-downloads"
    /\ Status = 200
    /\ Cardinality(db.downloads) = 2
    /\ \E row \in Reply : row.isoUrl = "https://mirror.org/TODO.iso"
    /\ \E w \in db.downloads : \A row \in Reply : row.id # w.id

ReleasesOf(x) == {r \in db.releases : r.distroId = x.id}

\* r is a release of x with the maximum release date
IsLatest(r, x) ==
    /\ r \in ReleasesOf(x)
    /\ \A q \in ReleasesOf(x) : q.releaseDate <= r.releaseDate

\* C20: the distribution listing has one entry for each distribution; its
\* latest version and LTS flag are those of one release of the distribution
\* with the maximum release date, and are null and false when the
\* distribution has no release.
C20_LatestIsMaxDate ==
    (Handled /\ exchange.route = "GET /api/distributions" /\ Status = 200) =>
        \A x \in db.distributions :
            /\ Cardinality({e \in Reply : e.id = x.id}) = 1
            /\ \A e \in Reply :
                  e.id = x.id =>
                      IF ReleasesOf(x) = {}
                      THEN e.latestVersion = NULL /\ e.isLatestLts = FALSE
                      ELSE \E r \in db.releases :
                              /\ IsLatest(r, x)
                              /\ e.latestVersion = r.versionNumber
                              /\ e.isLatestLts = r.isLts

\* reached: a listing in which one distribution has an older release and a
\* newer one with the other LTS flag and reports the newer, while a
\* distribution without releases reports null and false
C20_Witness ==
    /\ Handled
    /\ exchange.route = "GET /api/distributions"
    /\ Status = 200
    /\ \E x \in db.distributions, e \in Reply :
          /\ e.id = x.id
          /\ \E old, new \in ReleasesOf(x) :
                /\ old.releaseDate < new.releaseDate
                /\ old.isLts # new.isLts
                /\ e.latestVersion = new.versionNumber
                /\ e.isLatestLts = new.isLts
    /\ \E x \in db.distributions, e \in Reply :
          /\ e.id = x.id
          /\ ReleasesOf(x) = {}
          /\ e.latestVersion = NULL
          /\ e.isLatestLts = FALSE

(***************************************************************************)
(* Popularity: the rolling count of download clicks (server/storage.ts     *)
(* getTopDistrosByClicks, server/routes.ts GET /api/top-distros).          *)
(* Time is counted in days. clicked_at defaults to the database's now()    *)
(* and the threshold is computed from the server's new Date(): both read   *)
(* the one clock of the model.                                             *)
(***************************************************************************)
\* bound: the last day of the clock
MaxClock == 40
\* bound: the days between two readings of the clock
TickDays == 10
\* bound: the number of download clicks recorded
MaxEvents == 3
\* thirtyDaysAgo.setDate(thirtyDaysAgo.getDate() - 30)
WindowDays == 30
\* storage.getTopDistrosByClicks(10)
TopLimit == 10

\* the where clause left out: every click counts
RecentAlways(c, now) == TRUE

\* gte(downloadClicks.clickedAt, thirtyDaysAgo)
Recent(c, now) == c.clickedAt >= now - WindowDays

\* from downloadClicks inner join distributions, where, group by distroId and
\* name, count(downloadClicks.id): one row for each distribution with at
\* least one click that passes the where clause
ClickGroups(d, now) ==
    LET clicks(x) == {c \in d.downloadClicks : c.distroId = x.id /\ Recent(c, now)}
    IN  {[distroId |-> x.id, name |-> x.name, clickCount |-> Cardinality(clicks(x))] :
            x \in {y \in d.distributions : clicks(y) # {}}}

\* orderBy(desc(count)): the orders the database may return the groups in
\* (groups with equal counts come in any order)
CountOrders(rows) ==
    {s \in [1..Cardinality(rows) -> rows] :
        /\ \A i, j \in DOMAIN s : i # j => s[i] # s[j]
        /\ \A i, j \in DOMAIN s : i < j => s[i].clickCount >= s[j].clickCount}

\* the lists getTopDistrosByClicks(limit) may return at time now
getTopDistrosByClicks(d, now, limit) ==
    {SubSeq(s, 1, Min2(limit, Len(s))) : s \in CountOrders(ClickGroups(d, now))}

GetTopDistrosHandler(d, fails, now) ==
    IF fails THEN {Caught(d, "Failed to fetch top distros", 1)}
    ELSE {Sent(d, 200, top, 1) : top \in getTopDistrosByClicks(d, now, TopLimit)}

GetTopDistros ==
    \E fails \in BOOLEAN :
        \E r \in GetTopDistrosHandler(db, fails, clock) :
            /\ exchange.up
            /\ db' = r.db
            /\ exchange' = [route |-> "GET /api/top-distros", param |-> "", body |-> Absent,
                            fails |-> fails, sent |-> r.sent, calls |-> r.calls,
                            threw |-> r.threw, up |-> r.up]
            /\ UNCHANGED <<matcherVars, linkVars, restVars>>

\* time passes
Tick ==
    /\ clock + TickDays <= MaxClock
    /\ clock' = clock + TickDays
    /\ UNCHANGED <<matcherVars, linkVars, serverVars, runs, selectionVars, wizard>>

\* a download link is clicked: storage.recordDownloadClick for any distroId
DownloadClicked ==
    \E distroId \in 1..MaxSerial :
        /\ db.serial.downloadClicks < MaxEvents
        /\ db' = recordDownloadClick(db, distroId, clock).db
        /\ UNCHANGED <<exchange, matcherVars, linkVars, restVars>>

InitClicks ==
    /\ db = seedDatabase(seedDatabase(EmptyDb))
    /\ exchange = [NoExchange EXCEPT !.up = TRUE]
    /\ ClientIdle
    /\ RestIdle

NextClicks ==
    \/ Tick
    \/ DownloadClicked
    \/ GetTopDistros

SpecClicks == InitClicks /\ [][NextClicks]_vars

\* the clicks of distribution id made in the 30 days before time now
ClicksWithin(id, now) ==
    {c \in db.downloadClicks :
        c.distroId = id /\ now - c.clickedAt >= 0 /\ now - c.clickedAt <= WindowDays}

\* C21: each click count reported by the top-distros list is the number of
\* the distribution's download clicks made within the 30 days before the
\* query, and time never runs backwards, so a click older than 30 days is
\* never counted again.
C21_CountsClicksOfLast30Days ==
    [][/\ clock' >= clock
       /\ (exchange' # exchange /\ exchange'.route = "GET /api/top-distros"
             /\ exchange'.sent[1].status = 200) =>
             \A i \in DOMAIN exchange'.sent[1].reply :
                 LET e == exchange'.sent[1].reply[i]
                 IN  e.clickCount = Cardinality(ClicksWithin(e.distroId, clock))]_vars

\* reached: a top-distros list that reports two clicks for a distribution
\* that has three, the third being older than 30 days
C21_Witness ==
    /\ exchange.route = "GET /api/top-distros"
    /\ Status = 200
    /\ \E i \in DOMAIN Reply :
          /\ Reply[i].clickCount = 2
          /\ Cardinality(ClicksWithin(Reply[i].distroId, clock)) = 2
          /\ \E c \in db.downloadClicks :
                c.distroId = Reply[i].distroId /\ clock - c.clickedAt > WindowDays

(***************************************************************************)
(* The news fetcher as a process (scripts/fetch-news.ts fetchNews): one    *)
(* step for each await, so that the runs of Runs interleave where the      *)
(* script yields. The items of a feed are read one at a time; a feed has   *)
(* at most MaxItems of them.                                               *)
(***************************************************************************)
\* bound: the number of items of one feed
MaxItems == 2

RSS_FEEDS == <<"DistroWatch", "Phoronix", "9to5Linux">>

\* the statement after the try/catch of one feed: the next iteration of the
\* loop over RSS_FEEDS, or the summary after the last feed
NextFeed(run) ==
    IF run.feed < Len(RSS_FEEDS)
    THEN [run EXCEPT !.pc = "parse", !.feed = @ + 1, !.items = 0, !.link = "",
                     !.fetched = Append(@, RSS_FEEDS[run.feed + 1])]
    ELSE [run EXCEPT !.pc = "summary", !.items = 0, !.link = ""]

\* no try/catch around the feed: the exception leaves fetchNews and the
\* process exits with "Fatal error"
RethrowError(run) == [run EXCEPT !.pc = "fatal"]

\* catch (error): the error is printed and counted, the loop goes on
CatchError(run) == NextFeed([run EXCEPT !.errors = @ + 1])

\* the script is started: pool, parser and counters are created and the loop
\* enters its first iteration
StartRun(r) ==
    /\ runs[r].pc = "idle"
    /\ \A q \in Runs : q < r => runs[q].pc # "idle"
    /\ runs' = [runs EXCEPT ![r] = NextFeed([IdleRun EXCEPT !.pool = "open"])]
    /\ UNCHANGED <<matcherVars, linkVars, serverVars, clock, selectionVars, wizard>>

\* await parser.parseURL(feed.url): the feed is parsed, or the call throws
ParseFeed(r) ==
    /\ runs[r].pc = "parse"
    /\ \E throws \in BOOLEAN :
          runs' = [runs EXCEPT ![r] = IF throws THEN CatchError(@)
                                      ELSE [@ EXCEPT !.pc = "item"]]
    /\ UNCHANGED <<matcherVars, linkVars, serverVars, clock, selectionVars, wizard>>

\* the loop over feedData.items finds no further item
EndOfFeed(r) ==
    /\ runs[r].pc = "item"
    /\ runs' = [runs EXCEPT ![r] = NextFeed(@)]
    /\ UNCHANGED <<matcherVars, linkVars, serverVars, clock, selectionVars, wizard>>

\* the next item of the feed: skipped without title or link; otherwise
\* await db.select().from(news).where(eq(news.sourceUrl, item.link)), which
\* throws, finds a row (the item is counted as skipped) or finds none
SelectItem(r) ==
    /\ runs[r].pc = "item"
    /\ runs[r].items < MaxItems
    /\ \E item \in FeedItems, throws \in BOOLEAN :
          LET run == [runs[r] EXCEPT !.items = @ + 1]
          IN  runs' = [runs EXCEPT ![r] =
                  IF item.title = NULL \/ item.link = NULL THEN run
                  ELSE IF throws THEN CatchError(run)
                  ELSE IF \E n \in db.news : n.sourceUrl = item.link
                       THEN [run EXCEPT !.skipped = @ + 1]
                       ELSE [run EXCEPT !.pc = "insert", !.link = item.link]]
    /\ UNCHANGED <<matcherVars, linkVars, serverVars, clock, selectionVars, wizard>>

\* await db.insert(news).values(...): the row is inserted and counted, or
\* the call throws
InsertItem(r) ==
    /\ runs[r].pc = "insert"
    /\ \E throws \in BOOLEAN :
          IF throws
          THEN /\ runs' = [runs EXCEPT ![r] = CatchError(@)]
               /\ UNCHANGED db
          ELSE /\ db' = Insert(db, "news", [sourceUrl |-> runs[r].link]).db
               /\ runs' = [runs EXCEPT ![r] = [@ EXCEPT !.pc = "item", !.link = "",
                                                         !.added = @ + 1]]
    /\ UNCHANGED <<exchange, matcherVars, linkVars, clock, selectionVars, wizard>>

\* console.log of the summary
PrintSummary(r) ==
    /\ runs[r].pc = "summary"
    /\ LET run == runs[r]
       IN  runs' = [runs EXCEPT ![r] =
                       [run EXCEPT !.pc = "end",
                                   !.summary = <<[added |-> run.added, skipped |-> run.skipped,
                                                  errors |-> run.errors]>>]]
    /\ UNCHANGED <<matcherVars, linkVars, serverVars, clock, selectionVars, wizard>>

\* await pool.end()
PoolEnd(r) ==
    /\ runs[r].pc = "end"
    /\ runs' = [runs EXCEPT ![r] = [@ EXCEPT !.pc = "done", !.pool = "closed"]]
    /\ UNCHANGED <<matcherVars, linkVars, serverVars, clock, selectionVars, wizard>>

FetchStep(r) ==
    \/ StartRun(r)
    \/ ParseFeed(r)
    \/ EndOfFeed(r)
    \/ SelectItem(r)
    \/ InsertItem(r)
    \/ PrintSummary(r)
    \/ PoolEnd(r)

\* one run of the script
NextFetch == FetchStep(1)

SpecFetch == InitStore /\ [][NextFetch]_vars /\ WF_vars(NextFetch)

\* run r has parsed or tried to parse every feed, printed its summary and
\* closed its pool
Completed(r) ==
    /\ runs[r].pc = "done"
    /\ runs[r].fetched = RSS_FEEDS
    /\ Len(runs[r].summary) = 1
    /\ runs[r].pool = "closed"

\* C22: whatever fails while a feed is fetched or its items are processed,
\* the run goes on to the remaining feeds and ends with its summary printed
\* and its database pool closed; the failure is counted in the summary.
C22_RunSurvivesFeedErrors ==
    /\ <>Completed(1)
    /\ [](runs[1].pc = "done" => Completed(1) /\ runs[1].summary[1].errors = runs[1].errors)
    /\ [][runs'[1].errors # runs[1].errors =>
             /\ runs'[1].errors = runs[1].errors + 1
             /\ runs'[1].pc \in {"parse", "summary"}]_vars

\* reached: a run that ended after one feed failed and the two other feeds
\* each added an item
C22_Witness ==
    /\ Completed(1)
    /\ runs[1].errors = 1
    /\ runs[1].added = 2

(***************************************************************************)
(* Two runs of the news fetcher at the same time (a cron job started while *)
(* the previous run is still going): their steps interleave at each await. *)
(***************************************************************************)
NextRace == \E r \in Runs : FetchStep(r)

SpecRace == InitStore /\ [][NextRace]_vars

\* the rows of the news table that carry source URL u
NewsRowsOf(u) == {n \in db.news : n.sourceUrl = u}

\* C27: with two runs of the news fetcher overlapping, each source URL is
\* inserted into the news table at most once.
C27_OverlappingRunsInsertOnce ==
    \A u \in NewsUrls : Cardinality(NewsRowsOf(u)) <= 1

(***************************************************************************)
(* The ISO selection (client/src/contexts/IsoSelectionContext.tsx). Each   *)
(* browser tab that shows the application mounts one IsoSelectionProvider; *)
(* the tabs share the localStorage of the origin. An operation's state     *)
(* update, the render it causes and the effect that saves the selection    *)
(* are one step: React flushes the effects of a click before it returns to *)
(* the event loop. localStorage is taken to be available and within quota. *)
(***************************************************************************)
\* bound: the download ids offered for selection
MaxDownloadId == 2

\* the SelectedDownload the pages build for download id (Home.tsx, Compare.tsx)
SelectedDownload(id) ==
    [downloadId |-> id, isoUrl |-> "https://mirror.org/a.iso",
     downloadSize |-> IF id % 2 = 1 THEN "2.5 GB" ELSE NULL]

Downloads == {SelectedDownload(id) : id \in 1..MaxDownloadId}

\* JSON.stringify of one SelectedDownload: its properties in order, each
\* value as a JSON token
StringifyEntry(d) ==
    << <<"downloadId", [t |-> "number", v |-> d.downloadId]>>,
       <<"isoUrl", [t |-> "string", v |-> d.isoUrl]>>,
       <<"downloadSize", IF d.downloadSize = NULL THEN [t |-> "null", v |-> "null"]
                         ELSE [t |-> "string", v |-> d.downloadSize]>> >>

\* JSON.stringify(selectedDownloads)
JSONstringify(selected) ==
    [kind |-> "array", items |-> [i \in DOMAIN selected |-> StringifyEntry(selected[i])]]

\* the value of property key of a parsed JSON object
ParsedProperty(object, key) ==
    LET i == CHOOSE j \in DOMAIN object : object[j][1] = key
        token == object[i][2]
    IN  IF token.t = "null" THEN NULL ELSE token.v

\* JSON.parse of one object of the stored array
ParseEntry(object) ==
    [downloadId |-> ParsedProperty(object, "downloadId"),
     isoUrl |-> ParsedProperty(object, "isoUrl"),
     downloadSize |-> ParsedProperty(object, "downloadSize")]

\* the initializer of useState: [] when nothing is stored, when the item
\* does not parse or when it is not an array; the parsed array otherwise
RestoreSelection(saved) ==
    IF saved.kind = "null" THEN <<>>
    ELSE IF saved.kind = "invalid" THEN <<>>
    ELSE IF saved.kind # "array" THEN <<>>
    ELSE [i \in DOMAIN saved.items |-> ParseEntry(saved.items[i])]

\* no effect: the stored item is left as it is
EffectSkipped(selected, stored) == stored

\* useEffect(() => localStorage.setItem("ventoy-selections", ...), [selectedDownloads])
SaveEffect(selected, stored) == JSONstringify(selected)

SeqFilter(s, keep(_)) ==
    LET F[i \in 0..Len(s)] ==
            IF i = 0 THEN <<>>
            ELSE IF keep(s[i]) THEN Append(F[i - 1], s[i]) ELSE F[i - 1]
    IN  F[Len(s)]

\* the toggle without the test for an existing entry
toggleAppends(prev, download) == Append(prev, download)

\* the updater of toggleSelection
toggleSelection(prev, download) ==
    IF \E i \in DOMAIN prev : prev[i].downloadId = download.downloadId
    THEN SeqFilter(prev, LAMBDA d : d.downloadId # download.downloadId)
    ELSE Append(prev, download)

\* the updater of removeSelection
removeSelection(prev, downloadId) ==
    SeqFilter(prev, LAMBDA d : d.downloadId # downloadId)

\* the provider of tab p sets its state to selected, renders and runs its effect
SetSelectedDownloads(p, op, selected) ==
    /\ tabs' = [tabs EXCEPT ![p].selectedDownloads = selected]
    /\ localStorage' = SaveEffect(selected, localStorage)
    /\ lastOp' = [op |-> op, tab |-> p]
    /\ UNCHANGED <<matcherVars, linkVars, serverVars, clock, runs, wizard>>

\* the application is loaded in tab p: the provider mounts, restores the
\* selection from localStorage and runs its effect for the first time
MountProvider(p) ==
    /\ ~tabs[p].mounted
    /\ LET selected == RestoreSelection(localStorage)
       IN  /\ tabs' = [tabs EXCEPT ![p] = [mounted |-> TRUE, selectedDownloads |-> selected,
                                            restored |-> selected # <<>>]]
           /\ localStorage' = SaveEffect(selected, localStorage)
    /\ lastOp' = [op |-> "mount", tab |-> p]
    /\ UNCHANGED <<matcherVars, linkVars, serverVars, clock, runs, wizard>>

\* tab p is closed or reloaded: the provider and its state are gone
CloseTab(p) ==
    /\ tabs[p].mounted
    /\ tabs' = [tabs EXCEPT ![p] = ClosedTab]
    /\ lastOp' = [op |-> "close", tab |-> p]
    /\ UNCHANGED <<localStorage, matcherVars, linkVars, serverVars, clock, runs, wizard>>

ToggleSelection(p) ==
    /\ tabs[p].mounted
    /\ \E download \in Downloads :
          SetSelectedDownloads(p, "toggle", toggleSelection(tabs[p].selectedDownloads, download))

RemoveSelection(p) ==
    /\ tabs[p].mounted
    /\ \E id \in 1..MaxDownloadId :
          SetSelectedDownloads(p, "remove", removeSelection(tabs[p].selectedDownloads, id))

ClearSelection(p) ==
    /\ tabs[p].mounted
    /\ SetSelectedDownloads(p, "clear", <<>>)

InitSelection ==
    /\ ServerIdle
    /\ ClientIdle
    /\ RestIdle

NextSelection ==
    \E p \in Tabs :
        \/ MountProvider(p)
        \/ CloseTab(p)
        \/ ToggleSelection(p)
        \/ RemoveSelection(p)
        \/ ClearSelection(p)

SpecSelection == InitSelection /\ [][NextSelection]_vars

\* the operations that change the selection
SelectionOps == {"toggle", "remove", "clear"}

\* C23: after a toggle, remove or clear in a tab, the item stored under the
\* selection key is the tab's selection, and a provider mounted next
\* restores exactly that selection.
C23_StoredSelectionIsCurrent ==
    /\ [](lastOp.op \in SelectionOps =>
             /\ localStorage = JSONstringify(tabs[lastOp.tab].selectedDownloads)
             /\ RestoreSelection(localStorage) = tabs[lastOp.tab].selectedDownloads)
    /\ [][(lastOp.op \in SelectionOps /\ lastOp'.op = "mount") =>
             tabs'[lastOp'.tab].selectedDownloads = tabs[lastOp.tab].selectedDownloads]_vars

\* reached: a provider mounted in the second tab that holds the two
\* downloads, one of them without a size, that the first tab selected last
C23_Witness ==
    /\ lastOp = [op |-> "mount", tab |-> 2]
    /\ tabs[1].mounted
    /\ tabs[2].selectedDownloads = <<SelectedDownload(2), SelectedDownload(1)>>
    /\ tabs[1].selectedDownloads = tabs[2].selectedDownloads

\* the download ids in a selection
SelectedIds(selected) == {selected[i].downloadId : i \in DOMAIN selected}

\* C29: the selection of a provider, restored from localStorage or not,
\* holds at most one entry for each download id after any toggle, remove and
\* clear: selectedCount is the number of distinct downloads selected.
C29_OneEntryPerDownload ==
    \A p \in Tabs :
        LET selected == tabs[p].selectedDownloads
        IN  /\ \A i, j \in DOMAIN selected :
                  selected[i].downloadId = selected[j].downloadId => i = j
            /\ Len(selected) = Cardinality(SelectedIds(selected))

\* reached: a provider that restored a selection from localStorage and holds
\* two downloads after a toggle, in a tab other than the one that saved
C29_Witness ==
    /\ lastOp = [op |-> "toggle", tab |-> 2]
    /\ tabs[2].restored
    /\ Len(tabs[2].selectedDownloads) = 2
    /\ tabs[1].mounted
    /\ Len(tabs[1].selectedDownloads) = 1

(***************************************************************************)
(* Server starts, one after another, with clicks and the maintenance       *)
(* scripts between them (server/routes.ts registerRoutes, server/storage.ts*)
(* seedDatabase and seedAdditionalDistros).                                *)
(***************************************************************************)
\* bound: the distribution ids the starts may use up
MaxSeeded == 4

\* the server is started again: as ServerStart, with room for MaxSeeded
\* distribution ids
ServerRestart ==
    /\ db' = seedDatabase(db)
    /\ db'.serial.distributions <= MaxSeeded
    /\ exchange' = [NoExchange EXCEPT !.up = TRUE]
    /\ UNCHANGED <<matcherVars, linkVars, restVars>>

NextSeed ==
    \/ ServerRestart
    \/ RecordDownloadClick
    \/ RemoveDistros
    \/ ImportDatabase

SpecSeed == InitStore /\ [][NextSeed]_vars

\* C24: a server start on a database that holds distributions removes no
\* distribution, release, download or download click.
C24_RestartKeepsRows ==
    [][(db.distributions # {} /\ db' = seedDatabase(db)) =>
          /\ db.distributions \subseteq db'.distributions
          /\ db.releases \subseteq db'.releases
          /\ db.downloads \subseteq db'.downloads
          /\ db.downloadClicks \subseteq db'.downloadClicks]_vars

\* the rows of the distributions table with name n
NamedRows(n) == {x \in db.distributions : x.name = n}

\* C30: after any number of server starts, no two rows of the distributions
\* table have the same name.
C30_NamesUnique ==
    \A x \in db.distributions : Cardinality(NamedRows(x.name)) = 1

\* reached: a catalog that has used three or more distribution ids, in which
\* the distribution seeded by every restart is there once, under the latest
\* id, next to another distribution
C30_Witness ==
    /\ exchange.up
    /\ db.serial.distributions >= 3
    /\ \E x \in db.distributions : x.name = "Bazzite" /\ x.id = db.serial.distributions
    /\ Cardinality(db.distributions) >= 2

(***************************************************************************)
(* The admin endpoints over a catalog with up to two downloads: the        *)
(* broken-downloads listing and the PATCH of a download                    *)
(* (server/routes.ts 119-155).                                             *)
(***************************************************************************)
InitAdmin ==
    /\ db \in {Catalog(OneRelease, dls) : dls \in DownloadTables}
    /\ exchange = [NoExchange EXCEPT !.up = TRUE]
    /\ ClientIdle
    /\ RestIdle

NextAdmin ==
    \/ PatchDownload
    \/ GetBrokenDownloads

SpecAdmin == InitAdmin /\ [][NextAdmin]_vars

Patch == "PATCH /api/admin/downloads/:id"

\* the tables and sequences other than the downloads table are the same in
\* d and e
SameButDownloads(d, e) ==
    /\ d.distributions = e.distributions
    /\ d.releases = e.releases
    /\ d.downloadClicks = e.downloadClicks
    /\ d.news = e.news
    /\ d.serial = e.serial

\* C25: a PATCH changes no table but downloads and no download but the one
\* with the id of the request; of that download it changes the ISO URL to
\* the one supplied and the torrent URL to the one supplied when that is not
\* empty, and nothing else; answered 400 or 404 it changes nothing.
C25_PatchChangesOnlyUrls ==
    [][exchange'.route = Patch =>
          /\ SameButDownloads(db, db')
          /\ {w.id : w \in db'.downloads} = {w.id : w \in db.downloads}
          /\ Cardinality(db'.downloads) = Cardinality(db.downloads)
          /\ \A w \in db.downloads, v \in db'.downloads :
                w.id = v.id =>
                    IF exchange'.sent[1].status = 200 /\ w.id = ParamId[exchange'.param].v
                    THEN /\ v = [w EXCEPT !.isoUrl = v.isoUrl, !.torrentUrl = v.torrentUrl]
                         /\ v.isoUrl = exchange'.body.isoUrl
                         /\ v.torrentUrl = IF exchange'.body.torrentUrl \in {Absent, ""}
                                           THEN w.torrentUrl
                                           ELSE exchange'.body.torrentUrl
                    ELSE v = w
          /\ exchange'.sent[1].status \in {400, 404} => db' = db]_vars

\* reached: a PATCH with ISO and torrent URL answered 200 that changed both
\* URLs of download 2 of a catalog with two downloads
C25_Witness ==
    /\ exchange.route = Patch
    /\ Status = 200
    /\ exchange.param = "2"
    /\ exchange.body.torrentUrl = "https://mirror.org/a.iso.torrent"
    /\ \E w, v \in db.downloads :
          /\ w.id = 1
          /\ w.isoUrl = "https://mirror.org/placeholder.iso"
          /\ v.id = 2
          /\ v.isoUrl = exchange.body.isoUrl
          /\ v.torrentUrl = exchange.body.torrentUrl

\* C26: after a PATCH of a download is answered 200, the broken-downloads
\* listing does not hold that download.
C26_PatchedNotListedBroken ==
    (exchange.route = Patch /\ Status = 200) =>
        \A row \in getBrokenDownloads(db) : row.id # Reply.id

(***************************************************************************)
(* The matcher wizard (client/src/pages/Matcher.tsx). Each click is one    *)
(* step: the state update and the render that follows it, in which the     *)
(* results step calls getResults.                                          *)
(***************************************************************************)
useCaseOptions == <<"desktop", "gaming", "server", "development", "privacy">>

\* the Next button is never disabled
canProceedAlways(w) == TRUE

canProceed(w) ==
    IF w.step = 1 THEN w.experience # NULL
    ELSE IF w.step = 2 THEN Len(w.useCases) > 0
    ELSE IF w.step = 3 THEN w.hardware # NULL
    ELSE FALSE

\* the updater of toggleUseCase
toggleUseCase(prev, uc) ==
    IF Includes(prev, uc) THEN SeqFilter(prev, LAMBDA x : x # uc) ELSE Append(prev, uc)

\* getResults: the inputs getTopMatches is called with, if it is called
getResults(w) ==
    IF w.experience = NULL \/ Len(w.useCases) = 0 \/ w.hardware = NULL THEN <<>>
    ELSE <<[experience |-> w.experience, useCases |-> w.useCases, hardware |-> w.hardware]>>

\* the render of the page: const results = step === 4 ? getResults() : []
Render(w) == [w EXCEPT !.invoked = IF w.step = 4 THEN getResults(w) ELSE <<>>]

WizardStep(w) ==
    /\ wizard' = Render(w)
    /\ UNCHANGED <<matcherVars, linkVars, serverVars, clock, runs, selectionVars>>

\* an experience option is clicked (the options of step 1)
ClickExperience ==
    /\ wizard.step = 1
    /\ \E opt \in ExperienceLevel : WizardStep([wizard EXCEPT !.experience = opt])

\* a use-case option is clicked (the options of step 2)
ClickUseCase ==
    /\ wizard.step = 2
    /\ \E i \in DOMAIN useCaseOptions :
          WizardStep([wizard EXCEPT !.useCases = toggleUseCase(@, useCaseOptions[i])])

\* a hardware option is clicked (the options of step 3)
ClickHardware ==
    /\ wizard.step = 3
    /\ \E opt \in Hardware : WizardStep([wizard EXCEPT !.hardware = opt])

\* the Next button, rendered before step 4 and disabled unless canProceed()
ClickNext ==
    /\ wizard.step < 4
    /\ canProceed(wizard)
    /\ WizardStep([wizard EXCEPT !.step = @ + 1])

\* the Back button, rendered at steps 2 and 3
ClickBack ==
    /\ wizard.step > 1
    /\ wizard.step < 4
    /\ WizardStep([wizard EXCEPT !.step = @ - 1])

\* the Start Over buttons, rendered at step 4: reset
ClickStartOver ==
    /\ wizard.step = 4
    /\ WizardStep([wizard EXCEPT !.step = 1, !.experience = NULL, !.useCases = <<>>,
                                 !.hardware = NULL])

InitWizard ==
    /\ ServerIdle
    /\ ClientIdle
    /\ RestIdle

NextWizard ==
    \/ ClickExperience
    \/ ClickUseCase
    \/ ClickHardware
    \/ ClickNext
    \/ ClickBack
    \/ ClickStartOver

SpecWizard == InitWizard /\ [][NextWizard]_vars

\* an experience level, at least one use case and a hardware tier are selected
AllSelected ==
    /\ wizard.experience \in ExperienceLevel
    /\ Len(wizard.useCases) >= 1
    /\ wizard.hardware \in Hardware

\* C28: the wizard is at the results step only with an experience level, at
\* least one use case and a hardware tier selected, and the matcher is
\* called only at the results step, with these selections.
C28_ResultsOnlyWhenAllSelected ==
    /\ wizard.step \in 1..4
    /\ wizard.step = 4 => AllSelected
    /\ wizard.invoked # <<>> =>
          /\ wizard.step = 4
          /\ AllSelected
          /\ wizard.invoked[1] = [experience |-> wizard.experience,
                                   useCases |-> wizard.useCases,
                                   hardware |-> wizard.hardware]

\* reached: the results step with the matcher called for an expert, the use
\* cases gaming and privacy in the order of their selection, and low-end
\* hardware
C28_Witness ==
    /\ wizard.step = 4
    /\ wizard.invoked # <<>>
    /\ wizard.invoked[1].useCases = <<"gaming", "privacy">>
    /\ wizard.invoked[1].experience = "expert"
    /\ wizard.invoked[1].hardware = "low-end"

====
